---- MODULE Spec2Model ----
(***************************************************************************)
(* StatSim Pro: the statistical computation engine (logic/statistics,     *)
(* logic/normality, logic/correlation) as a state machine.                *)
(*                                                                         *)
(* A caller owns two arrays (valores1, valores2) and calls one of the     *)
(* exported functions on them; the call's return value or thrown error    *)
(* is recorded in the state.                                               *)
(*                                                                         *)
(* Numbers.  JavaScript numbers are IEEE-754 binary floating point: every *)
(* arithmetic result is rounded to the nearest representable value, ties  *)
(* to even.  The model keeps that rounding and reduces the significand    *)
(* from 53 bits to MantBits bits; the exponent is unbounded (no overflow, *)
(* no underflow).  A number is a record [m, e] of value m * 2^e with m    *)
(* odd or zero, so equal numbers are equal records.  Integers the code    *)
(* computes exactly (lengths, indexes, rank positions) stay exact.        *)
(*                                                                         *)
(* The p-value estimates go through log, exp and polynomial series; the   *)
(* model does not evaluate those.  A p-value is a number of               *)
(* ten-thousandths,                                                        *)
(* and a function that estimates one is the set of the objects it can     *)
(* return: one for each value of a small set inside the range the code    *)
(* clamps the estimate to, and a single one in the cases the code decides *)
(* without the series.  A call returns any one of them.                   *)
(***************************************************************************)
EXTENDS Integers, Sequences, FiniteSets, TLC

\* ------------------------------------------------------------------ bounds

\* Bits of significand of the model's floating point numbers.
MantBits == 4

\* Longest array the caller builds element by element.
MaxLen == 4

\* The largest number of items of a test whose draws are all enumerated.
MaxItems == 2

\* The largest sample size of a generated dataset.
MaxFilas == 2

\* The largest number of sociodemographic variables, and of tests, of a
\* configuration.
MaxColumnas == 2

\* The longest name whose every spelling is tried.
MaxNombre == 4

\* The largest number of rows of a table of the generator's form.
MaxFilasFormulario == 1

\* The most toasts in the queue when a handler starts.
MaxToasts == 1

\* The most callbacks waiting when a handler starts.
MaxTemporizadores == 1

\* The most entries of one call of actualizarEstado.
MaxCambios == 2

\* The most listeners subscribed in one run.
MaxListeners == 2

\* ---------------------------------------------------- floating point numbers

Abs(x) == IF x < 0 THEN -x ELSE x

Sgn(x) == IF x < 0 THEN -1 ELSE IF x > 0 THEN 1 ELSE 0

Max(x, y) == IF x >= y THEN x ELSE y

RECURSIVE BitLen(_)
\* Number of bits of the natural number n.
BitLen(n) == IF n = 0 THEN 0 ELSE 1 + BitLen(n \div 2)

Zero == [m |-> 0, e |-> 0]

RECURSIVE Canon(_, _)
\* The record of value m * 2^e with an odd (or zero) m.
Canon(m, e) ==
    IF m = 0 THEN Zero
    ELSE IF m % 2 = 0 THEN Canon(m \div 2, e + 1)
    ELSE [m |-> m, e |-> e]

\* A literal or an exactly computed integer.
FromInt(i) == Canon(i, 0)

One == FromInt(1)

\* The multiple of d nearest to the natural a, as a count of d's; a tie goes to
\* the even count.
Nearest(a, d) ==
    (a \div d) + (IF 2 * (a % d) > d \/ (2 * (a % d) = d /\ (a \div d) % 2 = 1)
                  THEN 1 ELSE 0)

\* n * 2^e with the k lowest bits of n rounded away.
RoundBits(n, e, k) ==
    IF k <= 0 THEN Canon(n, e)
    ELSE Canon(Sgn(n) * Nearest(Abs(n), 2 ^ k), e + k)

\* n * 2^e rounded to MantBits significant bits, ties to even.
Round(n, e) == RoundBits(n, e, BitLen(Abs(n)) - MantBits)

\* Position of the leading bit of a nonzero number.
Top(a) == BitLen(Abs(a.m)) + a.e

\* H * 2^eH + lo, |H| of at least MantBits + 2 bits and lo below it: a lo far
\* below the last kept bit only says on which side of H the sum lies.
AddScaled(H, eH, lo) ==
    IF eH <= lo.e THEN Round(H + lo.m * (2 ^ (lo.e - eH)), eH)
    ELSE IF eH - lo.e <= 12 THEN Round(H * (2 ^ (eH - lo.e)) + lo.m, lo.e)
    ELSE Round(4 * H + Sgn(lo.m), eH - 2)

\* hi + lo with hi's significand widened by s bits.
AddShift(hi, lo, s) == AddScaled(hi.m * (2 ^ s), hi.e - s, lo)

\* hi + lo, both nonzero, Top(hi) >= Top(lo)
AddOrdered(hi, lo) == AddShift(hi, lo, Max(0, MantBits + 2 - BitLen(Abs(hi.m))))

\* a + b; a sum with zero is the other operand, without rounding.
FAdd(a, b) ==
    IF a.m = 0 THEN b
    ELSE IF b.m = 0 THEN a
    ELSE IF Top(a) >= Top(b) THEN AddOrdered(a, b)
    ELSE AddOrdered(b, a)

FNeg(a) == [m |-> 0 - a.m, e |-> a.e]

\* a - b
FSub(a, b) == FAdd(a, FNeg(b))

\* a * b
FMul(a, b) == Round(a.m * b.m, a.e + b.e)

\* sg * (N / d) * 2^(e + 1), N and d positive: the quotient with one more bit
\* that says whether anything is left.
DivExact(N, d, sg, e) ==
    Round(sg * (2 * (N \div d) + (IF N % d = 0 THEN 0 ELSE 1)), e)

\* a / b with a's significand widened by s bits.
DivShift(a, b, s) ==
    DivExact(Abs(a.m) * (2 ^ s), Abs(b.m), Sgn(a.m) * Sgn(b.m), a.e - b.e - s - 1)

\* a / b, b nonzero
FDiv(a, b) ==
    IF a.m = 0 THEN Zero
    ELSE DivShift(a, b, Max(0, MantBits + 2 + BitLen(Abs(b.m)) - BitLen(Abs(a.m))))

RECURSIVE IsqrtAux(_, _, _)
\* Largest r + t with (r + t)^2 <= N, t below 2 * bit, by bisection on the bits.
IsqrtAux(N, r, bit) ==
    IF bit = 0 THEN r
    ELSE IF (r + bit) * (r + bit) <= N THEN IsqrtAux(N, r + bit, bit \div 2)
    ELSE IsqrtAux(N, r, bit \div 2)

\* sqrt(N) * 2^(e + 1) from the integer root r of N, with one more bit that
\* says whether anything is left.
SqrtRoot(N, r, e) == Round(2 * r + (IF r * r = N THEN 0 ELSE 1), e)

\* Math.sqrt(a) with a's significand widened by s bits, a.e - s even.
SqrtScaled(a, s) ==
    SqrtRoot(a.m * (2 ^ s), IsqrtAux(a.m * (2 ^ s), 0, 2 ^ 14), ((a.e - s) \div 2) - 1)

\* The widening that makes a.e - s even, at least s0.
SqrtEven(a, s0) == SqrtScaled(a, s0 + ((a.e - s0) % 2))

\* Math.sqrt(a), a >= 0
FSqrt(a) ==
    IF a.m = 0 THEN Zero
    ELSE SqrtEven(a, Max(0, 2 * MantBits + 4 - BitLen(a.m)))

\* Math.pow(a, k) for a small natural k
FPow(a, k) == Round(a.m ^ k, a.e * k)

\* a < b
FLt(a, b) ==
    IF Sgn(a.m) # Sgn(b.m) THEN Sgn(a.m) < Sgn(b.m)
    ELSE IF a.m = 0 THEN FALSE
    ELSE IF Top(a) # Top(b)
         THEN IF a.m > 0 THEN Top(a) < Top(b) ELSE Top(a) > Top(b)
    ELSE IF a.e >= b.e THEN a.m * (2 ^ (a.e - b.e)) < b.m
    ELSE a.m < b.m * (2 ^ (b.e - a.e))

\* a <= b
FLe(a, b) == a = b \/ FLt(a, b)

\* a > 0
FPos(a) == a.m > 0

\* ------------------------------------------------------- logic/statistics

\* Position of s[i] in the ascending stable order of s: after the smaller
\* elements and after the equal elements that precede it.
Posicion(s, i) ==
    Cardinality({j \in 1..Len(s) : FLt(s[j], s[i]) \/ (s[j] = s[i] /\ j < i)}) + 1

\* A JavaScript array as a sequence whose elements are evaluated once.
Arreglo(s) == s \o <<>>

\* The indexes of s in ascending stable order of the values.
Orden(s) ==
    LET pos == Arreglo([i \in 1..Len(s) |-> Posicion(s, i)])
    IN  Arreglo([p \in 1..Len(s) |-> CHOOSE i \in 1..Len(s) : pos[i] = p])

\* [...valores].sort((a, b) => a - b): an ascending copy.
Ordenar(s) ==
    LET o == Orden(s)
    IN  Arreglo([p \in 1..Len(s) |-> s[o[p]]])

RECURSIVE SumarTramo(_, _, _, _)
\* acc + s[lo] + ... + s[hi], added from left to right as reduce does.  The
\* sum of the left part is bound as a value before the right part is added to
\* it, which keeps the nesting of the evaluation logarithmic in hi - lo.
SumarTramo(s, lo, hi, acc) ==
    IF lo > hi THEN acc
    ELSE IF lo = hi THEN FAdd(acc, s[lo])
    ELSE LET mid == (lo + hi) \div 2
         IN  CHOOSE r \in {SumarTramo(s, mid + 1, hi, izquierda) :
                              izquierda \in {SumarTramo(s, lo, mid, acc)}} : TRUE

\* valores.reduce((a, b) => a + b, 0)
sumar(s) ==
    LET a == Arreglo(s)
    IN  SumarTramo(a, 1, Len(a), Zero)

\* reduce((acc, v) => acc + Math.pow((v - media) / divisor, k), 0)
SumarPotencias(s, media, divisor, k) ==
    sumar([i \in 1..Len(s) |-> FPow(FDiv(FSub(s[i], media), divisor), k)])

\* reduce((acc, v) => acc + Math.pow(v - media, 2), 0)
SumarCuadrados(s, media) ==
    sumar([i \in 1..Len(s) |-> FPow(FSub(s[i], media), 2)])

\* Linear interpolation between order statistics, index = p/100 * (n - 1).
\* p/100 * (n - 1) is exact for the percentiles the code asks for (25 and 75).
Interpolar(inferior, superior, weight) ==
    FAdd(FMul(inferior, FSub(One, weight)), FMul(superior, weight))

calcularPercentil(ordenados, percentil) ==
    LET num   == percentil * (Len(ordenados) - 1)
        lower == num \div 100
        upper == IF num % 100 = 0 THEN lower ELSE lower + 1
    IN  IF lower = upper THEN ordenados[lower + 1]
        ELSE Interpolar(ordenados[lower + 1], ordenados[upper + 1],
                        FDiv(FromInt(num % 100), FromInt(100)))

calcularAsimetria(valores, media, desviacion, n) ==
    IF desviacion = Zero \/ n < 3 THEN Zero
    ELSE FMul(FDiv(FromInt(n), FromInt((n - 1) * (n - 2))),
              SumarPotencias(valores, media, desviacion, 3))

calcularCurtosis(valores, media, desviacion, n) ==
    IF desviacion = Zero \/ n < 4 THEN Zero
    ELSE LET suma     == SumarPotencias(valores, media, desviacion, 4)
             kurtosis == FMul(FDiv(FromInt(n * (n + 1)),
                                   FromInt((n - 1) * (n - 2) * (n - 3))), suma)
             ajuste   == FDiv(FromInt(3 * (n - 1) * (n - 1)),
                              FromInt((n - 2) * (n - 3)))
         IN  FSub(kurtosis, ajuste)

\* valores.sort((a, b) => a - b): a sort of the array itself.
DescriptivasOrdena(valores) == Ordenar(valores)

\* The array the caller passed, as calcularDescriptivas leaves it: the sort is
\* on a copy.
DescriptivasDeja(valores) == valores

\* suma / n
Media(valores) == FDiv(sumar(valores), FromInt(Len(valores)))
\* n > 1 ? sumaCuadrados / (n - 1) : 1
VarianzaUno(valores, media) ==
    IF Len(valores) > 1
    THEN FDiv(SumarCuadrados(valores, media), FromInt(Len(valores) - 1))
    ELSE One

\* n > 1 ? sumaCuadrados / (n - 1) : 0
Varianza(valores, media) ==
    IF Len(valores) > 1
    THEN FDiv(SumarCuadrados(valores, media), FromInt(Len(valores) - 1))
    ELSE Zero

\* The middle of the sorted array, or the mean of the two middle elements.
Mediana(ordenados, n) ==
    IF n % 2 = 0
    THEN FDiv(FAdd(ordenados[n \div 2], ordenados[n \div 2 + 1]), FromInt(2))
    ELSE ordenados[n \div 2 + 1]

\* The object calcularDescriptivas returns, from the constants it has computed.
Estadisticas(valores, n, media, varianza, desviacion, ordenados, q1, q3) ==
    [n |-> n, media |-> media, desviacion |-> desviacion, varianza |-> varianza,
     errorEstandar |-> FDiv(desviacion, FSqrt(FromInt(n))),
     min |-> ordenados[1], max |-> ordenados[n],
     rango |-> FSub(ordenados[n], ordenados[1]),
     mediana |-> Mediana(ordenados, n), q1 |-> q1, q3 |-> q3,
     iqr |-> FSub(q3, q1),
     asimetria |-> calcularAsimetria(valores, media, desviacion, n),
     curtosis |-> calcularCurtosis(valores, media, desviacion, n)]

\* From the sorted copy on.
DesdeOrdenados(valores, media, varianza, ordenados) ==
    Estadisticas(valores, Len(valores), media, varianza, FSqrt(varianza), ordenados,
                 calcularPercentil(ordenados, 25), calcularPercentil(ordenados, 75))

\* From the mean on.
DesdeMedia(valores, media) ==
    DesdeOrdenados(valores, media, Varianza(valores, media), Ordenar(valores))

\* The statistics of a non-empty array.
calcularDescriptivas(valores) == DesdeMedia(valores, Media(valores))

\* valores.map((valor, idx) => ({valor, idx})), sorted by valor; the sort is
\* stable.
ParesOrdenados(valores) ==
    LET o == Orden(valores)
    IN  Arreglo([p \in 1..Len(valores) |-> [valor |-> valores[o[p]], idx |-> o[p]]])

RECURSIVE FinDeEmpate(_, _, _)
\* The inner while: the first position after i whose valor differs.
FinDeEmpate(pares, i, j) ==
    IF j <= Len(pares) /\ pares[j].valor = pares[i].valor
    THEN FinDeEmpate(pares, i, j + 1)
    ELSE j

\* i: the first position of the block instead of the average.
RangoMinimo(i, j) == FromInt(i)

\* (i + 1 + j) / 2 for the 0-based block [i, j): positions are 1-based here, so
\* the block [i, j) has 0-based bounds i - 1 and j - 1.
RangoPromedio(i, j) == Canon(i + j - 1, -1)

RECURSIVE AsignarRangos(_, _, _)
\* The outer while, from position i on.
AsignarRangos(pares, i, rangos) ==
    IF i > Len(pares) THEN rangos
    ELSE LET j == FinDeEmpate(pares, i, i)
         IN  AsignarRangos(pares, j,
                 Arreglo([k \in 1..Len(pares) |->
                            IF \E t \in i..(j - 1) : pares[t].idx = k
                            THEN RangoPromedio(i, j)
                            ELSE rangos[k]]))

\* The array the caller passed, as convertirARangos leaves it: the sort is on
\* the array of pairs.
RangosDeja(valores) == valores

\* Ranks with ties averaged.
convertirARangos(valores) ==
    AsignarRangos(ParesOrdenados(valores), 1,
                  Arreglo([k \in 1..Len(valores) |-> Zero]))

\* -------------------------------------------------------- logic/normality

\* CONFIG.ANALIZADOR
OBSERVACIONES_MIN == 3

UMBRAL_SHAPIRO_WILK == 50

\* A p-value is a number of ten-thousandths (0.05 is 500, 1 is 10000), or NaN.
NaN == -1

\* Estimates the series can give: the clamp's two ends and the two sides of 0.05.
PEstimados == {10, 500, 501, 9990}

\* p > c, as JavaScript compares: false when p is NaN.
PMayor(p, c) == p # NaN /\ p > c

MsgObservaciones == "Se necesitan al menos 3 observaciones para la prueba de normalidad"

DecisionNormal == "Los datos siguen una distribucion normal (p > 0.05)"

DecisionNoNormal == "Los datos NO siguen una distribucion normal (p <= 0.05)"

\* Royston's transformation of W, clamped to [0.001, 0.999]: the values it can
\* return.  W = 1 gives log(0) = -Infinity and so the upper end; W > 1 gives
\* the log of a negative number, NaN, which the clamp (Math.max, Math.min) lets
\* through; W = 0 gives z = -mu / sigma > 3.5 for every n from 3 to 49 and so
\* the lower end; elsewhere the series decides.
estimarPValorShapiro(W, n) ==
    IF W = One THEN {9990}
    ELSE IF FLt(One, W) THEN {NaN}
    ELSE IF W = Zero THEN {10}
    ELSE PEstimados

\* Marsaglia's series, clamped to [0.001, 0.999]: the values it can return.
estimarPValorKS(D, n) == PEstimados

\* for (i = 0; i < floor(n / 2); i++) numerador += peso * (e[n-1-i] - e[i])
Numerador(estandarizados, peso, n) ==
    sumar([k \in 1..(n \div 2) |->
              FMul(peso, FSub(estandarizados[n + 1 - k], estandarizados[k]))])

\* estandarizados.reduce((sum, v) => sum + v * v, 0)
SumarProductos(a, b) == sumar([k \in 1..Len(a) |-> FMul(a[k], b[k])])

\* 1 / Math.sqrt(n) for every index
obtenerPesoShapiro(n, i) == FDiv(One, FSqrt(FromInt(n)))

\* The array the caller passed, as the normality tests leave it.
NormalidadDeja(valores) == DescriptivasDeja(valores)

\* ordenados.map(v => desviacion > 0 ? (v - media) / desviacion : 0)
Estandarizar(ordenados, media, desviacion) ==
    Arreglo([i \in 1..Len(ordenados) |->
                IF FPos(desviacion)
                THEN FDiv(FSub(ordenados[i], media), desviacion)
                ELSE Zero])

\* denominador > 0 ? (numerador * numerador) / denominador : 1
EstadisticoW(numerador, denominador) ==
    IF FPos(denominador)
    THEN FDiv(FMul(numerador, numerador), denominador)
    ELSE One

\* W from the standardized sorted values.
DesdeEstandarizados(estandarizados, n) ==
    EstadisticoW(Numerador(estandarizados, obtenerPesoShapiro(n, 1), n),
                 SumarProductos(estandarizados, estandarizados))

\* W from the sorted copy and the descriptive statistics.
DesdeDescriptivas(ordenados, descriptivas) ==
    DesdeEstandarizados(
        Estandarizar(ordenados, descriptivas.media, descriptivas.desviacion),
        Len(ordenados))

\* { estadistico: W, pValor } for every p-value the estimate can give.
ResultadosShapiro(W, n) ==
    {[estadistico |-> W, pValor |-> p] : p \in estimarPValorShapiro(W, n)}

\* The objects shapiroWilk(valores) can return.
shapiroWilk(valores) ==
    ResultadosShapiro(
        DesdeDescriptivas(Ordenar(valores), calcularDescriptivas(valores)),
        Len(valores))

\* The objects kolmogorovSmirnov(valores) can return.  The statistic D needs
\* the normal distribution function at every value and is not evaluated.
kolmogorovSmirnov(valores) ==
    {[estadistico |-> "D", pValor |-> p] : p \in estimarPValorKS("D", Len(valores))}
\* resultado.pValor >= 0.05: a decision that takes 0.05 itself as normal.
EsNormalInclusivo(pValor) == pValor >= 500

\* resultado.normal = resultado.pValor > 0.05
EsNormal(pValor) == PMayor(pValor, 500)

\* The text chosen by resultado.pValor > 0.05
Decision(pValor) == IF PMayor(pValor, 500) THEN DecisionNormal ELSE DecisionNoNormal
\* n <= UMBRAL_SHAPIRO_WILK: a threshold that keeps n = 50 on the Shapiro-Wilk
\* side.
RamaShapiroInclusiva(n) == n <= UMBRAL_SHAPIRO_WILK

\* n < CONFIG.ANALIZADOR.UMBRAL_SHAPIRO_WILK
RamaShapiro(n) == n < UMBRAL_SHAPIRO_WILK

\* n < CONFIG.ANALIZADOR.OBSERVACIONES_MIN
MuyPocas(n) == n < OBSERVACIONES_MIN

\* resultado.prueba and resultado.razon set on each object of a test.
Etiquetar(resultados, prueba, razon) ==
    {r @@ [prueba |-> prueba, razon |-> razon] : r \in resultados}

\* resultado.n, resultado.normal and resultado.decision set.
Decidir(resultado_, n) ==
    resultado_ @@ [error |-> "", n |-> n, normal |-> EsNormal(resultado_.pValor),
                   decision |-> Decision(resultado_.pValor)]

\* The objects pruebaDeNormalidad(valores) can return; one with error # "" is
\* a thrown Error with that message.  "n >= 50" stands for the text with the
\* sign U+2265.
pruebaDeNormalidad(valores) ==
    IF MuyPocas(Len(valores)) THEN {[error |-> MsgObservaciones]}
    ELSE {Decidir(r, Len(valores)) :
             r \in IF RamaShapiro(Len(valores))
                   THEN Etiquetar(shapiroWilk(valores), "Shapiro-Wilk", "n < 50")
                   ELSE Etiquetar(kolmogorovSmirnov(valores),
                                  "Kolmogorov-Smirnov", "n >= 50")}

\* ------------------------------------------------------ logic/correlation

MsgLongitud == "Las columnas deben tener el mismo numero de valores"

MsgPares == "Se necesitan al menos 3 pares de valores"

MsgVacio == "Se requiere un array con al menos un valor"

\* CONFIG.ANALIZADOR.TIPOS_PRUEBA
TIPOS_PRUEBA == {"bilateral", "unilateral"}

\* Values the one-tailed estimate (t distribution or normal approximation) can
\* take: 0, 0.0001 (positive and below every threshold of the code), and values
\* whose double or which themselves fall on and between the thresholds 0.001,
\* 0.01, 0.05 and 1.
PColas == {0, 1, 5, 50, 250, 5000}

\* |r| >= 1
AbsAlMenosUno(r) == ~FLt(r, One) \/ ~FLt(FNeg(One), r)

\* betaIncompleta(gl / (gl + t * t), gl / 2, 0.5), the values it can return:
\* t = 0 gives x = 1 and the function returns 1 without the series.
calcularPValorT(t, gl) == IF t = Zero THEN {10000} ELSE PColas

\* Math.min(1, p)
Tope(p) == IF p < 10000 THEN p ELSE 10000

\* The doubling for a two-sided test and the cap at 1.
AjustarColas(pValor, tipoPrueba) ==
    Tope(IF tipoPrueba = "bilateral" THEN pValor * 2 ELSE pValor)

\* The values calcularPValorPearson can return, each with the function it
\* called for the tail ("ninguna" when it returned before the t statistic).
\* t = r * sqrt((n - 2) / (1 - r^2)) is zero exactly when r is, and
\* calcularPValorT is given |t|.
calcularPValorPearson(r, n, tipoPrueba) ==
    IF AbsAlMenosUno(r)
    THEN {[pValor |-> IF r = Zero THEN 10000 ELSE 0, via |-> "ninguna"]}
    ELSE {[pValor |-> AjustarColas(p, tipoPrueba), via |-> "calcularPValorT"] :
             p \in calcularPValorT(r, n - 2)}

\* covarianza += (valores1[i] - desc1.media) * (valores2[i] - desc2.media)
SumarCovarianza(valores1, media1, valores2, media2) ==
    sumar([k \in 1..Len(valores1) |->
              FMul(FSub(valores1[k], media1), FSub(valores2[k], media2))])

\* A coefficient that is 1, not 0, when a deviation is not positive.
CoeficienteUno(covarianza, desviacion1, desviacion2) ==
    IF FPos(desviacion1) /\ FPos(desviacion2)
    THEN FDiv(covarianza, FMul(desviacion1, desviacion2))
    ELSE FromInt(1)

\* (desc1.desviacion > 0 && desc2.desviacion > 0)
\*     ? covarianza / (desc1.desviacion * desc2.desviacion) : 0
Coeficiente(covarianza, desviacion1, desviacion2) ==
    IF FPos(desviacion1) /\ FPos(desviacion2)
    THEN FDiv(covarianza, FMul(desviacion1, desviacion2))
    ELSE Zero

\* r from the two arrays and their descriptive statistics.
CoeficienteDesde(valores1, valores2, desc1, desc2) ==
    Coeficiente(FDiv(SumarCovarianza(valores1, desc1.media, valores2, desc2.media),
                     FromInt(Len(valores1) - 1)),
                desc1.desviacion, desc2.desviacion)

\* { coeficiente, pValor, n } for every p-value of a set, with the function
\* that gave the p-value.
ResultadosCorrelacion(coeficiente, pValores, n) ==
    {[coeficiente |-> coeficiente, pValor |-> p.pValor, n |-> n, via |-> p.via] :
        p \in pValores}

\* The objects of correlacionPearson once r is computed.
PearsonDesde(r, n, tipoPrueba) ==
    ResultadosCorrelacion(r, calcularPValorPearson(r, n, tipoPrueba), n)

\* The objects correlacionPearson(valores1, valores2, tipoPrueba) can return.
correlacionPearson(valores1, valores2, tipoPrueba) ==
    PearsonDesde(CoeficienteDesde(valores1, valores2,
                                  calcularDescriptivas(valores1),
                                  calcularDescriptivas(valores2)),
                 Len(valores1), tipoPrueba)

\* n >= 10: a threshold that sends n = 10 to the normal approximation.
calcularPValorSpearmanDesdeDiez(rho, n, tipoPrueba) ==
    IF n >= 10
    THEN {[pValor |-> AjustarColas(p, tipoPrueba),
           via |-> "distribucionNormalAcumulada"] : p \in PColas}
    ELSE calcularPValorPearson(rho, n, tipoPrueba)

\* The values calcularPValorSpearman can return.  n > 10: the normal
\* approximation 1 - distribucionNormalAcumulada(|rho * sqrt(n - 1)|), doubled
\* and capped; otherwise the t approximation.
calcularPValorSpearman(rho, n, tipoPrueba) ==
    IF n > 10
    THEN {[pValor |-> AjustarColas(p, tipoPrueba),
           via |-> "distribucionNormalAcumulada"] : p \in PColas}
    ELSE calcularPValorPearson(rho, n, tipoPrueba)

\* The objects of correlacionSpearman once Pearson on the ranks has returned.
SpearmanDesde(resultadosPearson, n, tipoPrueba) ==
    UNION {ResultadosCorrelacion(
               resultadoPearson.coeficiente,
               calcularPValorSpearman(resultadoPearson.coeficiente, n, tipoPrueba),
               n) : resultadoPearson \in resultadosPearson}

\* The objects correlacionSpearman(valores1, valores2, tipoPrueba) can return.
correlacionSpearman(valores1, valores2, tipoPrueba) ==
    SpearmanDesde(correlacionPearson(convertirARangos(valores1),
                                     convertirARangos(valores2), tipoPrueba),
                  Len(valores1), tipoPrueba)
\* UMBRALES_CORRELACION: each literal is the number nearest to the decimal.
UMBRALES_CORRELACION ==
    [NULA |-> FDiv(FromInt(1), FromInt(10)),
     DEBIL |-> FDiv(FromInt(3), FromInt(10)),
     MODERADA |-> FDiv(FromInt(5), FromInt(10)),
     FUERTE |-> FDiv(FromInt(7), FromInt(10)),
     MUY_FUERTE |-> FDiv(FromInt(9), FromInt(10))]

\* TEXTOS, the entries interpretarCorrelacion reads (without accents, and with
\* >= for the sign U+2265).
TEXTOS ==
    [CORRELACION_NULA |-> "nula o muy debil",
     CORRELACION_DEBIL |-> "debil",
     CORRELACION_MODERADA |-> "moderada",
     CORRELACION_FUERTE |-> "fuerte",
     CORRELACION_MUY_FUERTE |-> "muy fuerte",
     DIRECCION_POSITIVA |-> "positiva",
     DIRECCION_NEGATIVA |-> "negativa",
     SIGNIFICANCIA_ALTA |-> "altamente significativa (p < .001)",
     SIGNIFICANCIA_MUY |-> "muy significativa (p < .01)",
     SIGNIFICANCIA_SI |-> "significativa (p < .05)",
     SIGNIFICANCIA_NO |-> "no significativa (p >= .05)"]

\* Math.abs(r)
FAbs(a) == Canon(Abs(a.m), a.e)

\* p < c, as JavaScript compares: false when p is NaN.
PMenor(p, c) == p # NaN /\ p < c

\* r >= 0 ? TEXTOS.DIRECCION_POSITIVA : TEXTOS.DIRECCION_NEGATIVA
Direccion(r) ==
    IF FLe(Zero, r) THEN TEXTOS.DIRECCION_POSITIVA ELSE TEXTOS.DIRECCION_NEGATIVA

\* absR <= threshold: a chain that leaves each boundary in the lower class.
FuerzaInclusiva(absR) ==
    IF FLe(absR, UMBRALES_CORRELACION.NULA) THEN TEXTOS.CORRELACION_NULA
    ELSE IF FLe(absR, UMBRALES_CORRELACION.DEBIL) THEN TEXTOS.CORRELACION_DEBIL
    ELSE IF FLe(absR, UMBRALES_CORRELACION.MODERADA) THEN TEXTOS.CORRELACION_MODERADA
    ELSE IF FLe(absR, UMBRALES_CORRELACION.FUERTE) THEN "moderada-fuerte"
    ELSE IF FLe(absR, UMBRALES_CORRELACION.MUY_FUERTE) THEN TEXTOS.CORRELACION_FUERTE
    ELSE TEXTOS.CORRELACION_MUY_FUERTE

\* The chain of comparisons of absR with the thresholds.
Fuerza(absR) ==
    IF FLt(absR, UMBRALES_CORRELACION.NULA) THEN TEXTOS.CORRELACION_NULA
    ELSE IF FLt(absR, UMBRALES_CORRELACION.DEBIL) THEN TEXTOS.CORRELACION_DEBIL
    ELSE IF FLt(absR, UMBRALES_CORRELACION.MODERADA) THEN TEXTOS.CORRELACION_MODERADA
    ELSE IF FLt(absR, UMBRALES_CORRELACION.FUERTE) THEN "moderada-fuerte"
    ELSE IF FLt(absR, UMBRALES_CORRELACION.MUY_FUERTE) THEN TEXTOS.CORRELACION_FUERTE
    ELSE TEXTOS.CORRELACION_MUY_FUERTE

\* p <= 0.001, p <= 0.01, p <= 0.05: a chain that leaves each boundary in the
\* more significant class.
SignificanciaInclusiva(p) ==
    IF p # NaN /\ p <= 10 THEN TEXTOS.SIGNIFICANCIA_ALTA
    ELSE IF p # NaN /\ p <= 100 THEN TEXTOS.SIGNIFICANCIA_MUY
    ELSE IF p # NaN /\ p <= 500 THEN TEXTOS.SIGNIFICANCIA_SI
    ELSE TEXTOS.SIGNIFICANCIA_NO

\* The chain of comparisons of p with 0.001, 0.01 and 0.05.
Significancia(p) ==
    IF PMenor(p, 10) THEN TEXTOS.SIGNIFICANCIA_ALTA
    ELSE IF PMenor(p, 100) THEN TEXTOS.SIGNIFICANCIA_MUY
    ELSE IF PMenor(p, 500) THEN TEXTOS.SIGNIFICANCIA_SI
    ELSE TEXTOS.SIGNIFICANCIA_NO

\* { fuerza, direccion, significancia, texto }; texto is the template's parts.
Interpretacion(fuerza, direccion, significancia) ==
    [fuerza |-> fuerza, direccion |-> direccion, significancia |-> significancia,
     texto |-> <<"Correlacion", fuerza, direccion, significancia>>]

\* interpretarCorrelacion(r, p)
interpretarCorrelacion(r, p) ==
    Interpretacion(Fuerza(FAbs(r)), Direccion(r), Significancia(p))

\* resultadoCorrelacion.pValor < alpha ? 'rechazar' : 'no_rechazar'
DecisionHipotesis(pValor, alpha) ==
    IF PMenor(pValor, alpha) THEN "rechazar" ELSE "no_rechazar"

\* The conclusion on H0: the template's parts; pValor.toFixed(4) is the
\* p-value itself, a number of ten-thousandths.
ConclusionH0(decision, pValor, alpha) ==
    IF decision = "rechazar"
    THEN <<"Se rechaza la hipotesis nula", pValor, "<", alpha>>
    ELSE <<"No se rechaza la hipotesis nula", pValor, ">=", alpha>>

\* The conclusion on H1.
ConclusionH1(decision, direccion) ==
    IF decision = "rechazar"
    THEN <<"Existe una relacion estadisticamente significativa", direccion>>
    ELSE <<"No existe evidencia suficiente de una relacion estadisticamente significativa">>

\* { alpha, pValor, decision, conclusionH0, conclusionH1 }
Hipotesis(alpha, pValor, decision, direccion) ==
    [alpha |-> alpha, pValor |-> pValor, decision |-> decision,
     conclusionH0 |-> ConclusionH0(decision, pValor, alpha),
     conclusionH1 |-> ConclusionH1(decision, direccion)]

\* pruebaHipotesisCorrelacion(resultadoCorrelacion, alpha)
pruebaHipotesisCorrelacion(resultadoCorrelacion, alpha) ==
    Hipotesis(alpha, resultadoCorrelacion.pValor,
              DecisionHipotesis(resultadoCorrelacion.pValor, alpha),
              resultadoCorrelacion.interpretacion.direccion)

\* The two validations in the other order.
ValidarMuestrasAlReves(valores1, valores2) ==
    IF Len(valores1) < 3 THEN MsgPares
    ELSE IF Len(valores1) # Len(valores2) THEN MsgLongitud
    ELSE ""

\* The two validations, in the order the code makes them: the message thrown,
\* or "" when the samples pass.
ValidarMuestras(valores1, valores2) ==
    IF Len(valores1) # Len(valores2) THEN MsgLongitud
    ELSE IF Len(valores1) < 3 THEN MsgPares
    ELSE ""
\* normalidad1.normal || normalidad2.normal: a selection that one normal
\* variable is enough for.
AlgunaNormal(normalidad1, normalidad2) == normalidad1.normal \/ normalidad2.normal

\* normalidad1.normal && normalidad2.normal
AmbasNormales(normalidad1, normalidad2) == normalidad1.normal /\ normalidad2.normal

\* The array the caller passed, as calcularCorrelacion leaves it.
CorrelacionDeja(valores) == RangosDeja(DescriptivasDeja(NormalidadDeja(valores)))

\* resultado.tipoCorrelacion and the metadata set on each object of a method;
\* traza lists the functions called, in order: the two normality tests, the
\* method, and the function that gave the method's p-value.
ConMetadatos(resultados, tipoCorrelacion, metodo, normalidad1, normalidad2, tipoPrueba) ==
    {[coeficiente |-> r.coeficiente, pValor |-> r.pValor, n |-> r.n,
      error |-> "", tipoCorrelacion |-> tipoCorrelacion,
      normalidad1 |-> normalidad1, normalidad2 |-> normalidad2,
      tipoPrueba |-> tipoPrueba,
      interpretacion |-> interpretarCorrelacion(r.coeficiente, r.pValor),
      traza |-> <<"pruebaDeNormalidad", "pruebaDeNormalidad", metodo, r.via>>] :
        r \in resultados}

\* The automatic selection of the method for one pair of normality results.
Seleccionar(normalidad1, normalidad2, pearson, spearman, tipoPrueba) ==
    IF AmbasNormales(normalidad1, normalidad2)
    THEN ConMetadatos(pearson, "Pearson", "correlacionPearson",
                      normalidad1, normalidad2, tipoPrueba)
    ELSE ConMetadatos(spearman, "Spearman (Rho)", "correlacionSpearman",
                      normalidad1, normalidad2, tipoPrueba)

\* The selection for every pair of normality results; pearson and spearman
\* are what the two methods can return on the arrays.
SeleccionarCada(normalidades1, normalidades2, pearson, spearman, tipoPrueba) ==
    UNION {Seleccionar(normalidad1, normalidad2, pearson, spearman, tipoPrueba) :
              normalidad1 \in normalidades1, normalidad2 \in normalidades2}

\* The objects calcularCorrelacion(valores1, valores2, tipoPrueba) can return;
\* one with error # "" is a thrown Error with that message.
calcularCorrelacion(valores1, valores2, tipoPrueba) ==
    IF ValidarMuestras(valores1, valores2) # ""
    THEN {[error |-> ValidarMuestras(valores1, valores2), traza |-> <<>>]}
    ELSE SeleccionarCada(pruebaDeNormalidad(valores1), pruebaDeNormalidad(valores2),
                         correlacionPearson(valores1, valores2, tipoPrueba),
                         correlacionSpearman(valores1, valores2, tipoPrueba),
                         tipoPrueba)

\* -------------------------------------------------------- logic/generator

\* null, for a limit that is not given.
Nulo == [nulo |-> TRUE]

\* Math.min(a, b)
FMin(a, b) == IF FLt(b, a) THEN b ELSE a

\* Math.max(a, b)
FMax(a, b) == IF FLt(a, b) THEN b ELSE a

\* media + z0: a draw that does not scale the transform by desviacion.
GenerarSinEscala(media, desviacion, z0) == FAdd(media, z0)

\* generarValorNormal(media, desviacion) when the Box-Muller transform of its
\* two uniform draws is z0: media + desviacion * z0.
generarValorNormal(media, desviacion, z0) == FAdd(media, FMul(desviacion, z0))

\* Math.round(x), an integer: the floor of x + 1/2.
Redondear(a) ==
    IF a.e >= 0 THEN a.m * (2 ^ a.e)
    ELSE (2 * a.m + 2 ^ (0 - a.e)) \div (2 ^ (1 - a.e))

\* if (minItem === null) minItem = 1
MinimoItem(minItem) == IF minItem = Nulo THEN FromInt(1) ELSE minItem

\* if (maxItem === null) maxItem = 7
MaximoItem(maxItem) == IF maxItem = Nulo THEN FromInt(7) ELSE maxItem

\* valor, without the limits.
SinLimitar(valor, minimo, maximo) == valor

\* Math.max(minimo, Math.min(maximo, valor))
Limitar(valor, minimo, maximo) == FMax(minimo, FMin(maximo, valor))

\* The sum of a sequence of integers: items.reduce((a, b) => a + b, 0).
RECURSIVE SumarEnteros(_, _)
SumarEnteros(items, k) ==
    IF k = 0 THEN 0 ELSE SumarEnteros(items, k - 1) + items[k]

\* { items, total }
Puntajes(items) == [items |-> items, total |-> SumarEnteros(items, Len(items))]

\* The loop of generarPuntajesPrueba once the limits have their defaults; z
\* holds the transform's value for each item's draw.
PuntajesCon(numItems, mediaPorItem, desviacionPorItem, minItem, maxItem, z) ==
    Puntajes(Arreglo([i \in 1..numItems |->
        Redondear(Limitar(generarValorNormal(mediaPorItem, desviacionPorItem, z[i]),
                          minItem, maxItem))]))

\* generarPuntajesPrueba(numItems, mediaPorItem, desviacionPorItem, minItem,
\* maxItem) when the draws are z.
generarPuntajesPrueba(numItems, mediaPorItem, desviacionPorItem, minItem, maxItem, z) ==
    PuntajesCon(numItems, mediaPorItem, desviacionPorItem,
                MinimoItem(minItem), MaximoItem(maxItem), z)

\* The value the k-th call of generarValorNormal gets from the transform when
\* the random source starts at offset d: the source goes through four values
\* in turn.
Sorteo(d, k) == <<FNeg(One), Zero, Canon(1, -1), FromInt(3)>>[((k + d) % 4) + 1]

\* A limit is never applied.
NingunLimite(minimo, maximo) == FALSE

\* socio.minimo !== null && socio.maximo !== null
AmbosLimites(minimo, maximo) == minimo # Nulo /\ maximo # Nulo

\* Math.round(valor * factor) / factor
RedondearConFactor(valor, factor) ==
    FDiv(FromInt(Redondear(FMul(valor, factor))), factor)

\* The value of a sociodemographic variable from its draw: the limits if both
\* are given, then the rounding with factor = Math.pow(10, socio.decimales).
ValorSocio(socio, valor) ==
    RedondearConFactor(IF AmbosLimites(socio.minimo, socio.maximo)
                       THEN Limitar(valor, socio.minimo, socio.maximo)
                       ELSE valor,
                       FPow(FromInt(10), socio.decimales))

\* participante[columna] = valor
Poner(fila, columna, valor) == (columna :> valor) @@ fila

\* config.sociodemograficos.forEach from the j-th variable on; the calls of
\* generarValorNormal before it number base + j - 1.
RECURSIVE PonerSocios(_, _, _, _, _)
PonerSocios(fila, socios, j, base, d) ==
    IF j > Len(socios) THEN fila
    ELSE PonerSocios(
             Poner(fila, socios[j].categoriaCorta,
                   ValorSocio(socios[j],
                              generarValorNormal(socios[j].promedio,
                                                 socios[j].desviacion,
                                                 Sorteo(d, base + j)))),
             socios, j + 1, base, d)

\* puntajes.items.forEach from the idx-th item on (idx is 1-based here, as the
\* column's number is).
RECURSIVE PonerItems(_, _, _, _)
PonerItems(fila, nombreCorto, items, idx) ==
    IF idx > Len(items) THEN fila
    ELSE PonerItems(Poner(fila, nombreCorto \o ToString(idx), FromInt(items[idx])),
                    nombreCorto, items, idx + 1)

\* The columns of one test: its items, then its total.
PonerPrueba(fila, nombreCorto, puntajes) ==
    Poner(PonerItems(fila, nombreCorto, puntajes.items, 1),
          "Total_" \o nombreCorto, FromInt(puntajes.total))

\* The draws of the items of a test that starts after base calls.
SorteosDesde(d, base, numItems) ==
    Arreglo([k \in 1..numItems |-> Sorteo(d, base + k)])

\* config.pruebas.forEach from the t-th test on.
RECURSIVE PonerPruebas(_, _, _, _, _)
PonerPruebas(fila, pruebas, t, base, d) ==
    IF t > Len(pruebas) THEN fila
    ELSE PonerPruebas(
             PonerPrueba(fila, pruebas[t].nombreCorto,
                         generarPuntajesPrueba(
                             pruebas[t].numItems, pruebas[t].media,
                             pruebas[t].desviacion, pruebas[t].minimo,
                             pruebas[t].maximo,
                             SorteosDesde(d, base, pruebas[t].numItems))),
             pruebas, t + 1, base + pruebas[t].numItems, d)

\* The number of items of the tests up to the t-th.
RECURSIVE ItemsHasta(_, _)
ItemsHasta(pruebas, t) ==
    IF t = 0 THEN 0 ELSE ItemsHasta(pruebas, t - 1) + pruebas[t].numItems

\* The number of calls of generarValorNormal one participant takes.
SorteosPorFila(config) ==
    Len(config.sociodemograficos) + ItemsHasta(config.pruebas, Len(config.pruebas))

\* The participant of the i-th iteration (i is 0-based): { ID: i + 1 }, the
\* sociodemographic variables, the tests.
Participante(config, i, base, d) ==
    PonerPruebas(PonerSocios(Poner(<<>>, "ID", FromInt(i + 1)),
                             config.sociodemograficos, 1, base, d),
                 config.pruebas, 1, base + Len(config.sociodemograficos), d)

\* generarBaseDatos(config) when the random source starts at offset d.
generarBaseDatos(config, d) ==
    [i \in 1..config.tamanoMuestra |->
        Participante(config, i - 1, (i - 1) * SorteosPorFila(config), d)]

\* The order of the properties of an object. A name is a sequence of
\* characters here, so that its digits can be told.

\* The string of a sequence of characters.
RECURSIVE Texto(_)
Texto(caracteres) ==
    IF Len(caracteres) = 0 THEN ""
    ELSE caracteres[1] \o Texto(Tail(caracteres))

\* The digits, and the number each one is.
Digitos == <<"0", "1", "2", "3", "4", "5", "6", "7", "8", "9">>

\* The number a digit is.
ValorDeDigito(c) == (CHOOSE k \in 1..10 : Digitos[k] = c) - 1

\* The number a sequence of digits writes, read from its first k characters.
RECURSIVE ValorDeDigitos(_, _)
ValorDeDigitos(nombre, k) ==
    IF k = 0 THEN 0
    ELSE 10 * ValorDeDigitos(nombre, k - 1) + ValorDeDigito(nombre[k])

\* A property name is an array index: digits only, with no leading zero
\* unless it is "0". (The names here are short of the limit of 2^32 - 2.)
EsIndice(nombre) ==
    /\ Len(nombre) >= 1
    /\ \A k \in 1..Len(nombre) : \E j \in 1..10 : Digitos[j] = nombre[k]
    /\ (nombre[1] = "0" => Len(nombre) = 1)

\* The names of a set of array indices in ascending order of their numbers.
RECURSIVE IndicesEnOrden(_)
IndicesEnOrden(nombres) ==
    IF nombres = {} THEN <<>>
    ELSE <<CHOOSE n \in nombres :
               \A o \in nombres :
                   ValorDeDigitos(n, Len(n)) <= ValorDeDigitos(o, Len(o))>>
         \o IndicesEnOrden(nombres \ {CHOOSE n \in nombres :
               \A o \in nombres :
                   ValorDeDigitos(n, Len(n)) <= ValorDeDigitos(o, Len(o))})

\* The names of a sequence from the k-th on that are not array indices, each
\* one at the place of its first assignment.
RECURSIVE OtrosEnOrden(_, _)
OtrosEnOrden(asignados, k) ==
    IF k > Len(asignados) THEN <<>>
    ELSE (IF EsIndice(asignados[k])
             \/ \E j \in 1..(k - 1) : asignados[j] = asignados[k]
          THEN <<>> ELSE <<asignados[k]>>)
         \o OtrosEnOrden(asignados, k + 1)

\* Object.keys of an object whose properties were assigned in the given
\* order: the array indices in ascending order, then the other names in the
\* order of their first assignment.
ObjectKeys(asignados) ==
    IndicesEnOrden({asignados[k] : k \in {j \in 1..Len(asignados) : EsIndice(asignados[j])}})
        \o OtrosEnOrden(asignados, 1)

\* ----------------------------------------------------------- utils/helpers

\* A string is the sequence of its characters; the characters of the names are
\* two lower-case letters, an upper-case letter, a digit, a space, a hyphen and
\* a letter that is not of a-z.

\* A value that is not a string (null), told from every string by its one
\* member, which is no character.
NoCadena == <<"null">>

\* [a-zA-Z0-9]
EsAlfanumerico(c) == c \in {"a", "b", "Z", "7"}

\* \s
EsEspacio(c) == c = " "

\* c.toUpperCase()
Mayuscula(c) == IF c = "a" THEN "A" ELSE IF c = "b" THEN "B" ELSE c

\* Every character is kept.
SinLimpiar(nombre) == nombre

\* nombre.replace(/[^a-zA-Z0-9\s]/g, '')
Limpiar(nombre) ==
    SelectSeq(nombre, LAMBDA c : EsAlfanumerico(c) \/ EsEspacio(c))

\* texto.split(/\s+/) from the i-th character on: palabras are the pieces
\* closed so far, actual the piece being read, enEspacio whether the character
\* before was white space.
RECURSIVE Separar(_, _, _, _, _)
Separar(texto, i, palabras, actual, enEspacio) ==
    IF i > Len(texto) THEN Append(palabras, actual)
    ELSE IF EsEspacio(texto[i])
         THEN IF enEspacio
              THEN Separar(texto, i + 1, palabras, actual, TRUE)
              ELSE Separar(texto, i + 1, Append(palabras, actual), <<>>, TRUE)
         ELSE Separar(texto, i + 1, palabras, Append(actual, texto[i]), FALSE)

\* .map(palabra => palabra.charAt(0).toUpperCase()).join('') from the k-th
\* piece on: charAt(0) of an empty piece is the empty string.
RECURSIVE UnirIniciales(_, _)
UnirIniciales(palabras, k) ==
    IF k > Len(palabras) THEN <<>>
    ELSE (IF Len(palabras[k]) = 0 THEN <<>> ELSE <<Mayuscula(palabras[k][1])>>)
             \o UnirIniciales(palabras, k + 1)

\* texto.substring(0, maxLength)
Subcadena(texto, maxLength) ==
    SubSeq(texto, 1, IF Len(texto) < maxLength THEN Len(texto) ELSE maxLength)

\* !nombre.trim()
SoloEspacios(nombre) == \A i \in 1..Len(nombre) : EsEspacio(nombre[i])

\* The default of maxLength.
MaxLengthDefault == 10

\* generarNombreCorto(nombre, maxLength) of utils/helpers: the empty string
\* for what is not a string or has white space only.
generarNombreCorto(nombre, maxLength) ==
    IF nombre = NoCadena \/ SoloEspacios(nombre) THEN <<>>
    ELSE Subcadena(UnirIniciales(Separar(Limpiar(nombre), 1, <<>>, <<>>, FALSE), 1),
                   maxLength)

\* generarNombreCorto(nombre) of the application's entry point: the same chain
\* with no test of the argument and the length 10 written in it; replace is
\* not a method of what is not a string.
generarNombreCortoApp(nombre) ==
    IF nombre = NoCadena THEN [error |-> "TypeError"]
    ELSE [error |-> "",
          corto |-> Subcadena(UnirIniciales(Separar(Limpiar(nombre), 1, <<>>, <<>>, FALSE), 1),
                              10)]

\* -------------------------------------------------------- utils/validators

\* The messages of validarNumero.
MsgNumero == "El valor debe ser un numero valido"
MsgEntero == "El valor debe ser un numero entero"
MsgPositivo == "El valor debe ser positivo (mayor a 0)"
MsgAlMenos == "El valor debe ser al menos min"
MsgExcede == "El valor no puede exceder max"

\* A number is an integer: Number.isInteger(num).
EsNumeroEntero(num) == num.e >= 0

\* The options of validarNumero; an option that is not given is Nulo, and
\* entero and positivo are false by default.
Opciones(min, max, entero, positivo) ==
    [min |-> min, max |-> max, entero |-> entero, positivo |-> positivo]

\* validarNumero(valor, opciones): parseFloat of null is NaN, which ends the
\* validation at once; the other tests each add their error.
validarNumero(valor, opciones) ==
    IF valor = Nulo
    THEN [valido |-> FALSE, errores |-> <<MsgNumero>>]
    ELSE [valido |->
              /\ ~(opciones.entero /\ ~EsNumeroEntero(valor))
              /\ ~(opciones.positivo /\ FLe(valor, Zero))
              /\ ~(opciones.min # Nulo /\ FLt(valor, opciones.min))
              /\ ~(opciones.max # Nulo /\ FLt(opciones.max, valor)),
          errores |->
              (IF opciones.entero /\ ~EsNumeroEntero(valor)
               THEN <<MsgEntero>> ELSE <<>>)
              \o (IF opciones.positivo /\ FLe(valor, Zero)
                  THEN <<MsgPositivo>> ELSE <<>>)
              \o (IF opciones.min # Nulo /\ FLt(valor, opciones.min)
                  THEN <<MsgAlMenos>> ELSE <<>>)
              \o (IF opciones.max # Nulo /\ FLt(opciones.max, valor)
                  THEN <<MsgExcede>> ELSE <<>>)]

\* The warnings of validarTamanoMuestral.
AvisoPocoPoder == "Tamano muestral < 30"
AvisoMuyGrande == "Tamano muestral muy grande"

\* The smallest size validarTamanoMuestral lets through.
TamanoMinimo == 2

\* validarTamanoMuestral(n) once validarNumero has answered: its errors if it
\* found any, and else only warnings, below 30 and above 10000.
TamanoSegun(n, numVal) ==
    IF ~numVal.valido
    THEN [valido |-> FALSE, errores |-> numVal.errores, advertencias |-> <<>>]
    ELSE [valido |-> TRUE, errores |-> <<>>,
          advertencias |->
              (IF FLt(n, FromInt(30)) THEN <<AvisoPocoPoder>> ELSE <<>>)
              \o (IF FLt(FromInt(10000), n) THEN <<AvisoMuyGrande>> ELSE <<>>)]

\* validarTamanoMuestral(n)
validarTamanoMuestral(n) ==
    TamanoSegun(n, validarNumero(n, Opciones(FromInt(TamanoMinimo), Nulo, TRUE, FALSE)))

\* The errors of validarConfiguracionPrueba, by what they are about.
MsgNombrePrueba == "El nombre de la prueba es requerido"
MsgItems == "Numero de items"
MsgMedia == "Media"
MsgDesviacion == "Desviacion estandar"
MsgRango == "El minimo debe ser menor que el maximo"

\* !prueba.nombre || typeof prueba.nombre !== 'string' || !prueba.nombre.trim()
SinNombre(nombre) == nombre = NoCadena \/ SoloEspacios(nombre)

\* prueba.minimo !== null && prueba.maximo !== null, and
\* prueba.minimo >= prueba.maximo
RangoInvertido(minimo, maximo) ==
    minimo # Nulo /\ maximo # Nulo /\ FLe(maximo, minimo)

\* The errors validarConfiguracionPrueba(prueba) collects, in its order.
ErroresPrueba(prueba) ==
    (IF SinNombre(prueba.nombre) THEN <<MsgNombrePrueba>> ELSE <<>>)
    \o (IF validarNumero(prueba.numItems,
                         Opciones(FromInt(1), Nulo, TRUE, FALSE)).valido
        THEN <<>> ELSE <<MsgItems>>)
    \o (IF validarNumero(prueba.media, Opciones(Nulo, Nulo, FALSE, FALSE)).valido
        THEN <<>> ELSE <<MsgMedia>>)
    \o (IF validarNumero(prueba.desviacion,
                         Opciones(Nulo, Nulo, FALSE, TRUE)).valido
        THEN <<>> ELSE <<MsgDesviacion>>)
    \o (IF RangoInvertido(prueba.minimo, prueba.maximo)
        THEN <<MsgRango>> ELSE <<>>)

\* validarConfiguracionPrueba(prueba), without its warnings.
validarConfiguracionPrueba(prueba) ==
    [valido |-> ErroresPrueba(prueba) = <<>>, errores |-> ErroresPrueba(prueba)]

\* An argument that was not given: undefined.
SinArgumento == <<"undefined">>

\* validarSeleccionVariables(var1, var2, columnasDisponibles); "" is an empty
\* selection.  excepcion is the error thrown: columnasDisponibles.includes of
\* undefined is a TypeError.
validarSeleccionVariables(var1, var2, columnasDisponibles) ==
    IF var1 = "" \/ var2 = ""
    THEN [valido |-> FALSE, errores |-> <<"Debe seleccionar ambas variables">>,
          excepcion |-> ""]
    ELSE IF var1 = var2
    THEN [valido |-> FALSE, errores |-> <<"Las variables deben ser diferentes">>,
          excepcion |-> ""]
    ELSE IF columnasDisponibles = SinArgumento
    THEN [valido |-> FALSE, errores |-> <<>>, excepcion |-> "TypeError"]
    ELSE [valido |-> \A v \in {var1, var2} :
                        \E k \in 1..Len(columnasDisponibles) :
                            columnasDisponibles[k] = v,
          errores |-> SelectSeq(<<var1, var2>>,
                          LAMBDA v : \A k \in 1..Len(columnasDisponibles) :
                                         columnasDisponibles[k] # v),
          excepcion |-> ""]

\* --------------------------------------------------------------- core/state

\* A number held in the state.
Numero(n) == [tipo |-> "number", v |-> n]

\* A boolean held in the state.
Booleano(b) == [tipo |-> "boolean", v |-> IF b THEN 1 ELSE 0]

\* undefined, what reading a missing property gives.
Indefinido == [tipo |-> "undefined", v |-> 0]

\* ESTADO_INICIAL, with one property of the section generador and one of the
\* section ui.
ESTADO_INICIAL ==
    [generador |-> [tamanoMuestra |-> Numero(100)],
     ui |-> [cargando |-> Booleano(FALSE)]]

\* JSON.stringify(value) of a number, a boolean or undefined.
JSONStringify(value) ==
    IF value.tipo = "boolean" THEN (IF value.v = 1 THEN "true" ELSE "false")
    ELSE IF value.tipo = "number" THEN ToString(value.v)
    ELSE "undefined"

\* A comparison that takes every write as a change.
CambiaSiempre(oldValue, value) == TRUE

\* JSON.stringify(oldValue) !== JSON.stringify(value)
CambiaValor(oldValue, value) == JSONStringify(oldValue) # JSONStringify(value)

\* listener.key === key || listener.key === rootKey || listener.key === '*',
\* a key being the sequence of its names and rootKey the first of them.
Escucha(listener, key) ==
    listener.key = key \/ listener.key = <<key[1]>> \/ listener.key = <<"*">>

\* The listeners of a key, in the order of the Map.
QueEscuchan(listeners, key) == SelectSeq(listeners, LAMBDA l : Escucha(l, key))

\* notificarCambio(key, newValue, oldValue): the calls it makes, in order, when
\* estadoInterno is state.
notificarCambio(listeners, key, newValue, oldValue, state) ==
    Arreglo([i \in 1..Len(QueEscuchan(listeners, key)) |->
                [oyente |-> QueEscuchan(listeners, key)[i].id, key |-> key,
                 newValue |-> newValue, oldValue |-> oldValue, state |-> state]])

\* obj[keys[0]][keys[1]], undefined when a name is missing.
Leer(obj, keys) ==
    IF keys[1] \in DOMAIN obj /\ keys[2] \in DOMAIN obj[keys[1]]
    THEN obj[keys[1]][keys[2]]
    ELSE Indefinido

\* if (!(keys[i] in target)) target[keys[i]] = {}; target = target[keys[i]]
Padre(obj, keys) == IF keys[1] \in DOMAIN obj THEN obj[keys[1]] ELSE <<>>

\* target[lastKey] = value, in the object obj.
Escribir(obj, keys, value) ==
    (keys[1] :> ((keys[2] :> value) @@ Padre(obj, keys))) @@ obj

\* The object with the parent of the path in it.
ConPadre(obj, keys) == (keys[1] :> Padre(obj, keys)) @@ obj

RECURSIVE AplicarCambios(_, _, _, _)
\* Object.entries(cambios).forEach(...): the object and the pending
\* notifications after the entries from i on.
AplicarCambios(cambios, i, interno, pendientes) ==
    IF i > Len(cambios) THEN [interno |-> interno, pendientes |-> pendientes]
    ELSE IF CambiaValor(Leer(interno, cambios[i].path), cambios[i].value)
    THEN AplicarCambios(cambios, i + 1,
             Escribir(interno, cambios[i].path, cambios[i].value),
             Append(pendientes,
                    [key |-> cambios[i].path, newValue |-> cambios[i].value,
                     oldValue |-> Leer(interno, cambios[i].path)]))
    ELSE AplicarCambios(cambios, i + 1, ConPadre(interno, cambios[i].path),
                        pendientes)

RECURSIVE NotificarPendientes(_, _, _, _)
\* notificacionesPendientes.forEach(...): the calls made from entry i on.
NotificarPendientes(listeners, pendientes, i, state) ==
    IF i > Len(pendientes) THEN <<>>
    ELSE notificarCambio(listeners, pendientes[i].key, pendientes[i].newValue,
                         pendientes[i].oldValue, state)
             \o NotificarPendientes(listeners, pendientes, i + 1, state)

\* obtenerEstado()
obtenerEstado(interno) == interno

\* obtenerValor(path), with no default value.
obtenerValor(interno, path) == Leer(interno, path)

\* seccion && seccion in ESTADO_INICIAL; no argument is "".
EsSeccion(seccion) == seccion # "" /\ seccion \in DOMAIN ESTADO_INICIAL

\* ------------------------------------------------- logic/generator: export

\* The names of the columns of one test in the order generarBaseDatos assigns
\* them: its items, then its total.
ColumnasAsignadasDePrueba(prueba) ==
    [k \in 1..prueba.numItems |-> prueba.nombreCorto \o <<Digitos[k + 1]>>]
        \o <<<<"T", "o", "t", "a", "l", "_">> \o prueba.nombreCorto>>

\* The names of the columns of the tests from the t-th on.
RECURSIVE ColumnasAsignadasDePruebas(_, _)
ColumnasAsignadasDePruebas(pruebas, t) ==
    IF t > Len(pruebas) THEN <<>>
    ELSE ColumnasAsignadasDePrueba(pruebas[t])
             \o ColumnasAsignadasDePruebas(pruebas, t + 1)

\* The names generarBaseDatos assigns to a participante, in order: ID, the
\* variables, the columns of the tests.
ColumnasAsignadas(config) ==
    <<<<"I", "D">>>>
        \o [j \in 1..Len(config.sociodemograficos) |->
                config.sociodemograficos[j].categoriaCorta]
        \o ColumnasAsignadasDePruebas(config.pruebas, 1)

\* The configuracion with its short names as strings.
ConNombresDeTexto(config) ==
    [tamanoMuestra |-> config.tamanoMuestra,
     sociodemograficos |->
         Arreglo([j \in 1..Len(config.sociodemograficos) |->
             [config.sociodemograficos[j] EXCEPT
                 !.categoriaCorta = Texto(config.sociodemograficos[j].categoriaCorta)]]),
     pruebas |->
         Arreglo([t \in 1..Len(config.pruebas) |->
             [config.pruebas[t] EXCEPT
                 !.nombreCorto = Texto(config.pruebas[t].nombreCorto)]])]

\* The line of a row: fila[enc] for each of encabezados.
LineaDe(fila, encabezados) ==
    Arreglo([k \in 1..Len(encabezados) |-> fila[Texto(encabezados[k])]])

\* exportarCSV(datos) for rows whose properties were assigned in the given
\* order: the line of Object.keys(datos[0]), then a line for each row. A line
\* is the sequence of what join(',') puts between the commas.
exportarCSV(datos, asignados) ==
    IF Len(datos) = 0 THEN [error |-> "No hay datos para exportar"]
    ELSE [error |-> "",
          encabezados |-> ObjectKeys(asignados),
          lineas |-> Arreglo([i \in 1..Len(datos) |->
                                 LineaDe(datos[i], ObjectKeys(asignados))])]

\* --------------------------------------------------------------- the caller

VARIABLES
    valores1,    \* the first array, as it is now
    valores2,    \* the second array, as it is now
    entrada1,    \* the first array as the caller built it
    entrada2,    \* the second array as the caller built it
    op,          \* the function called last, "ninguna" before any call
    argumento,   \* what the last call was given: "array" or "null"
    resultado,   \* what the last call returned; error # "" when it threw
    previo,      \* what the call before it returned
    llamadas,    \* number of calls made
    almacen,         \* the application's store: datosGenerados, datosCargados, resultadosAnalisis
    toasts,          \* the toast shown and those queued behind it, in order
    temporizadores,  \* the callbacks given to setTimeout that have not run, in order
    excepciones,     \* number of exceptions that left a callback with nothing to catch them
    estadoInterno,   \* core/state: the object the variable estadoInterno holds
    destinoProxy,    \* core/state: the object the exported proxy estado is on
    mismoObjeto,     \* core/state: whether the two are one object
    listeners,       \* core/state: the entries { id, key } of the Map, in order
    listenerIdCounter, \* core/state: the counter of listener ids
    avisos,          \* core/state: the calls the last operation made to listeners
    operacion        \* core/state: the last operation and what it was given

\* The variables of the application's handlers.
aplicacion == <<almacen, toasts, temporizadores, excepciones>>

\* The variables of core/state.
tienda == <<estadoInterno, destinoProxy, mismoObjeto, listeners, listenerIdCounter,
           avisos, operacion>>

\* The variables of the calls of the exported functions.
funciones == <<valores1, valores2, entrada1, entrada2, op, argumento, resultado,
               previo, llamadas>>

vars == <<valores1, valores2, entrada1, entrada2, op, argumento, resultado,
          previo, llamadas, almacen, toasts, temporizadores, excepciones,
          estadoInterno, destinoProxy, mismoObjeto, listeners, listenerIdCounter,
          avisos, operacion>>

\* Sample values of the first array.
Valores1 == {FromInt(7), FromInt(13), FromInt(14)}

\* The arrays of length at most MaxLen over a set of values.
Cortas(V) == UNION {[1..k -> V] : k \in 0..MaxLen}

\* An array of the given length, cycling over 7, 13, 14 from an offset.
Larga(n, d) == Arreglo([i \in 1..n |-> FromInt(<<7, 13, 14>>[((i + d) % 3) + 1])])

\* The lengths on the two sides of the Shapiro-Wilk threshold.
LongitudesLargas == {UMBRAL_SHAPIRO_WILK - 1, UMBRAL_SHAPIRO_WILK}

\* An array of the given length, alternating between 7 and 14 from an offset.
Alterna(n, d) == Arreglo([i \in 1..n |-> FromInt(7 * (1 + ((i + d) % 2)))])

\* The second arrays: one alternating array of each length and offset.
Segundas == {Alterna(k, d) : k \in 0..MaxLen, d \in 0..1}

\* An array with one tie between two distinct values.
Ejemplo == <<FromInt(10), FromInt(20), FromInt(20), FromInt(30)>>

\* The array 1, 2, ..., n.
Escalera(n) == Arreglo([i \in 1..n |-> FromInt(i)])

\* The lengths of the arrays paired with themselves.
LongitudesEscalera == {4, 5, 10, 11}

\* The pairs of arrays the caller builds: every short first array with every
\* second array, a pair of long arrays of each long length, the array with a
\* tie, and arrays 1..n paired with themselves.
Muestras ==
    (Cortas(Valores1) \X Segundas)
        \cup {<<Larga(n, 0), Larga(n, 1)>> : n \in LongitudesLargas}
        \cup {<<Ejemplo, Alterna(Len(Ejemplo), 0)>>}
        \cup {<<Escalera(n), Escalera(n)>> : n \in LongitudesEscalera}

SinResultado == [error |-> "sin llamada"]

\* The store as the application's entry point sets it: datosGenerados,
\* datosCargados and resultadosAnalisis are null; no toast, no timer.
AplicacionInicial ==
    /\ almacen = [datosGenerados |-> <<>>, datosCargados |-> <<>>,
                  configuracionGenerador |-> Nulo,
                  resultadosAnalisis |-> Nulo]
    /\ toasts = <<>>
    /\ temporizadores = <<>>
    /\ excepciones = 0

\* core/state after the module is loaded: estadoInterno is a copy of
\* ESTADO_INICIAL, the proxy is on that object, nobody listens.
TiendaInicial ==
    /\ estadoInterno = ESTADO_INICIAL
    /\ destinoProxy = ESTADO_INICIAL
    /\ mismoObjeto = TRUE
    /\ listeners = <<>>
    /\ listenerIdCounter = 0
    /\ avisos = <<>>
    /\ operacion = [nombre |-> "ninguna", cambios |-> <<>>]

Init ==
    /\ \E par \in Muestras : valores1 = par[1] /\ valores2 = par[2]
    /\ entrada1 = valores1
    /\ entrada2 = valores2
    /\ op = "ninguna"
    /\ argumento = "array"
    /\ resultado = SinResultado
    /\ previo = SinResultado
    /\ llamadas = 0
    /\ AplicacionInicial
    /\ TiendaInicial

\* A guard that also rejects an array of one element.
DescriptivasRechazaUno(arg, valores) == arg # "array" \/ Len(valores) <= 1

\* !Array.isArray(valores) || valores.length === 0
DescriptivasRechaza(arg, valores) == arg # "array" \/ Len(valores) = 0

\* calcularDescriptivas(valores1) or calcularDescriptivas(null); a second call
\* repeats the first one's argument.
LlamarCalcularDescriptivas ==
    /\ op \in {"ninguna", "calcularDescriptivas"}
    /\ llamadas < 2
    /\ \E arg \in {"array", "null"} :
          /\ op = "calcularDescriptivas" => arg = argumento
          /\ argumento' = arg
          /\ resultado' = IF DescriptivasRechaza(arg, valores1)
                          THEN [error |-> MsgVacio]
                          ELSE calcularDescriptivas(valores1) @@ [error |-> ""]
          /\ valores1' = IF DescriptivasRechaza(arg, valores1)
                         THEN valores1
                         ELSE DescriptivasDeja(valores1)
    /\ op' = "calcularDescriptivas"
    /\ previo' = resultado
    /\ llamadas' = llamadas + 1
    /\ UNCHANGED <<valores2, entrada1, entrada2>>
    /\ UNCHANGED <<aplicacion, tienda>>

\* pruebaDeNormalidad(valores1)
LlamarPruebaDeNormalidad ==
    /\ op = "ninguna"
    /\ resultado' \in pruebaDeNormalidad(valores1)
    /\ valores1' = IF MuyPocas(Len(valores1)) THEN valores1
                   ELSE NormalidadDeja(valores1)
    /\ op' = "pruebaDeNormalidad"
    /\ argumento' = "array"
    /\ previo' = resultado
    /\ llamadas' = llamadas + 1
    /\ UNCHANGED <<valores2, entrada1, entrada2>>
    /\ UNCHANGED <<aplicacion, tienda>>

\* convertirARangos(valores1)
LlamarConvertirARangos ==
    /\ op = "ninguna"
    /\ resultado' = [error |-> "", rangos |-> convertirARangos(valores1)]
    /\ valores1' = RangosDeja(valores1)
    /\ op' = "convertirARangos"
    /\ argumento' = "array"
    /\ previo' = resultado
    /\ llamadas' = llamadas + 1
    /\ UNCHANGED <<valores2, entrada1, entrada2>>
    /\ UNCHANGED <<aplicacion, tienda>>

\* calcularCorrelacion(valores1, valores2, tipoPrueba)
LlamarCalcularCorrelacion ==
    /\ op = "ninguna"
    /\ \E tipoPrueba \in TIPOS_PRUEBA :
          resultado' \in calcularCorrelacion(valores1, valores2, tipoPrueba)
    /\ valores1' = IF ValidarMuestras(valores1, valores2) # "" THEN valores1
                   ELSE CorrelacionDeja(valores1)
    /\ valores2' = IF ValidarMuestras(valores1, valores2) # "" THEN valores2
                   ELSE CorrelacionDeja(valores2)
    /\ op' = "calcularCorrelacion"
    /\ argumento' = "array"
    /\ previo' = resultado
    /\ llamadas' = llamadas + 1
    /\ UNCHANGED <<entrada1, entrada2>>
    /\ UNCHANGED <<aplicacion, tienda>>

\* The coefficients given to interpretarCorrelacion: every number of the
\* precision from -9/8 to 9/8 on a grid that holds each threshold and the
\* numbers next to it.
Coeficientes ==
    {c \in {Canon(k, -(MantBits + 3)) :
               k \in (-(9 * (2 ^ MantBits)))..(9 * (2 ^ MantBits))} :
        BitLen(Abs(c.m)) <= MantBits}

\* The p-values given to it: 0, 1, and the two sides of 0.001, 0.01 and 0.05.
PValores == {0, 1, 9, 10, 99, 100, 499, 500, 501, 10000}

\* interpretarCorrelacion(r, p), by a caller that holds no arrays (the
\* function reads none).
LlamarInterpretarCorrelacion ==
    /\ op = "ninguna"
    /\ Len(valores1) = 0
    /\ Len(valores2) = 0
    /\ \E r \in Coeficientes, p \in PValores :
          /\ argumento' = [r |-> r, p |-> p]
          /\ resultado' = interpretarCorrelacion(r, p) @@ [error |-> ""]
    /\ op' = "interpretarCorrelacion"
    /\ previo' = resultado
    /\ llamadas' = llamadas + 1
    /\ UNCHANGED <<valores1, valores2, entrada1, entrada2>>
    /\ UNCHANGED <<aplicacion, tienda>>

\* Values of the Box-Muller transform: -1, 0, 1/2 and 3.
Normales == {FNeg(One), Zero, Canon(1, -1), FromInt(3)}

\* The draws of a call that makes k of them: every sequence for a short call,
\* and for a long one the constant sequences and one that goes through the
\* values in turn.
Sorteos(k) ==
    IF k <= MaxItems THEN [1..k -> Normales]
    ELSE {Arreglo([i \in 1..k |-> z0]) : z0 \in Normales}
             \cup {Arreglo([i \in 1..k |->
                        <<FNeg(One), Zero, Canon(1, -1), FromInt(3)>>[(i % 4) + 1]])}

\* The arguments given to generarPuntajesPrueba.
ArgumentosPuntajes ==
    [numItems : (0..MaxItems) \cup {20},
     mediaPorItem : {FromInt(4), FromInt(50)},
     desviacionPorItem : {Zero, One, FromInt(2)},
     minItem : {Nulo, FromInt(1), FromInt(3)},
     maxItem : {Nulo, FromInt(5), Canon(13, -1), FromInt(100)}]

\* generarPuntajesPrueba(...), by a caller that holds no arrays.
LlamarGenerarPuntajesPrueba ==
    /\ op = "ninguna"
    /\ Len(valores1) = 0
    /\ Len(valores2) = 0
    /\ \E a \in ArgumentosPuntajes : \E z \in Sorteos(a.numItems) :
          /\ argumento' = a @@ [z |-> z]
          /\ resultado' =
                generarPuntajesPrueba(a.numItems, a.mediaPorItem,
                                      a.desviacionPorItem, a.minItem, a.maxItem, z)
                    @@ [error |-> ""]
    /\ op' = "generarPuntajesPrueba"
    /\ previo' = resultado
    /\ llamadas' = llamadas + 1
    /\ UNCHANGED <<valores1, valores2, entrada1, entrada2>>
    /\ UNCHANGED <<aplicacion, tienda>>

\* The sociodemographic variables of the configurations, as
\* procesarConfiguracionSociodemograficos makes them: "Edad" with both limits,
\* "Peso" with a minimum only, "Dosis" with both limits and one decimal, and
\* "Ingreso Diario", whose short name is "ID", with no limit.
Sociodemograficos ==
    {[categoriaCorta |-> "E", promedio |-> FromInt(4), desviacion |-> One,
      minimo |-> FromInt(3), maximo |-> FromInt(5), decimales |-> 0],
     [categoriaCorta |-> "P", promedio |-> FromInt(4), desviacion |-> One,
      minimo |-> FromInt(5), maximo |-> Nulo, decimales |-> 0],
     [categoriaCorta |-> "D", promedio |-> One, desviacion |-> Canon(1, -1),
      minimo |-> Canon(1, -1), maximo |-> Canon(3, -1), decimales |-> 1],
     [categoriaCorta |-> "ID", promedio |-> FromInt(7), desviacion |-> Zero,
      minimo |-> Nulo, maximo |-> Nulo, decimales |-> 0]}

\* The tests of the configurations, as procesarConfiguracionPruebas makes
\* them: "Ansiedad" with two items, "Autoestima" with one (both have the short
\* name "A"), and "Bienestar" with one item and limits.
Pruebas ==
    {[nombreCorto |-> "A", numItems |-> 2, media |-> FromInt(4),
      desviacion |-> FromInt(2), minimo |-> Nulo, maximo |-> Nulo],
     [nombreCorto |-> "A", numItems |-> 1, media |-> FromInt(2),
      desviacion |-> Zero, minimo |-> Nulo, maximo |-> Nulo],
     [nombreCorto |-> "B", numItems |-> 1, media |-> FromInt(4),
      desviacion |-> One, minimo |-> FromInt(1), maximo |-> FromInt(5)]}

\* The sequences of at most n members of S.
Hasta(S, n) == UNION {[1..k -> S] : k \in 0..n}

\* The configurations given to generarBaseDatos.
Configuraciones ==
    [tamanoMuestra : 0..MaxFilas,
     sociodemograficos : Hasta(Sociodemograficos, MaxColumnas),
     pruebas : Hasta(Pruebas, MaxColumnas)]

\* The offsets the random source starts at.
Desplazamientos == 0..3

\* generarBaseDatos(config), by a caller that holds no arrays.
LlamarGenerarBaseDatos ==
    /\ op = "ninguna"
    /\ Len(valores1) = 0
    /\ Len(valores2) = 0
    /\ \E config \in Configuraciones, d \in Desplazamientos :
          /\ argumento' = config @@ [d |-> d]
          /\ resultado' = [datos |-> Arreglo(generarBaseDatos(config, d)),
                           error |-> ""]
    /\ op' = "generarBaseDatos"
    /\ previo' = resultado
    /\ llamadas' = llamadas + 1
    /\ UNCHANGED <<valores1, valores2, entrada1, entrada2>>
    /\ UNCHANGED <<aplicacion, tienda>>

\* The characters of the names.
Caracteres == {"a", "b", "Z", "7", " ", "-", "n~"}

\* A name of k characters with a word at every odd place.
Palabras(k, separador) ==
    Arreglo([i \in 1..k |-> IF i % 2 = 0 THEN separador
                            ELSE <<"a", "b", "Z", "7">>[((i \div 2) % 4) + 1]])

\* The names given to generarNombreCorto: every string of at most MaxNombre
\* characters, names of ten, eleven and twelve one-letter words, and null for
\* what is not a string.
Nombres ==
    UNION {[1..k -> Caracteres] : k \in 0..MaxNombre}
        \cup {Palabras(k, " ") : k \in {19, 21, 23}}
        \cup {Palabras(21, "-")}
        \cup {NoCadena}

\* generarNombreCorto(nombre) of utils/helpers, by a caller that holds no
\* arrays.
LlamarGenerarNombreCorto ==
    /\ op = "ninguna"
    /\ Len(valores1) = 0
    /\ Len(valores2) = 0
    /\ \E nombre \in Nombres :
          /\ argumento' = [nombre |-> nombre]
          /\ resultado' = [error |-> "",
                           corto |-> generarNombreCorto(nombre, MaxLengthDefault)]
    /\ op' = "generarNombreCorto"
    /\ previo' = resultado
    /\ llamadas' = llamadas + 1
    /\ UNCHANGED <<valores1, valores2, entrada1, entrada2>>
    /\ UNCHANGED <<aplicacion, tienda>>

\* generarNombreCorto(nombre) of the application's entry point.
LlamarGenerarNombreCortoApp ==
    /\ op = "ninguna"
    /\ Len(valores1) = 0
    /\ Len(valores2) = 0
    /\ \E nombre \in Nombres :
          /\ argumento' = [nombre |-> nombre]
          /\ resultado' = generarNombreCortoApp(nombre)
    /\ op' = "generarNombreCortoApp"
    /\ previo' = resultado
    /\ llamadas' = llamadas + 1
    /\ UNCHANGED <<valores1, valores2, entrada1, entrada2>>
    /\ UNCHANGED <<aplicacion, tienda>>

\* The sizes given to validarTamanoMuestral: integers on the two sides of 2,
\* 10, 30 and 10000, the number 10.5, and null.
Tamanos ==
    {FromInt(k) : k \in {1, 2, 5, 9, 10, 29, 30, 10000, 10001}}
        \cup {Canon(21, -1), Nulo}

\* validarTamanoMuestral(n), by a caller that holds no arrays.
LlamarValidarTamanoMuestral ==
    /\ op = "ninguna"
    /\ Len(valores1) = 0
    /\ Len(valores2) = 0
    /\ \E n \in Tamanos :
          /\ argumento' = [n |-> n]
          /\ resultado' = validarTamanoMuestral(n) @@ [error |-> ""]
    /\ op' = "validarTamanoMuestral"
    /\ previo' = resultado
    /\ llamadas' = llamadas + 1
    /\ UNCHANGED <<valores1, valores2, entrada1, entrada2>>
    /\ UNCHANGED <<aplicacion, tienda>>

\* The names of the variables and tests of the exported datasets: a letter,
\* a digit, two digits, no character at all.
NombresCortos == {<<"E">>, <<"7">>, <<"1", "2">>, <<>>}

\* The configurations of the exported datasets: at most one variable and one
\* test of two items, with any of the short names.
ConfiguracionesCSV ==
    [tamanoMuestra : 0..MaxFilas,
     sociodemograficos :
         Hasta({[categoriaCorta |-> c, promedio |-> FromInt(4), desviacion |-> One,
                 minimo |-> Nulo, maximo |-> Nulo, decimales |-> 0]
                    : c \in NombresCortos}, 1),
     pruebas :
         Hasta({[nombreCorto |-> c, numItems |-> 2, media |-> FromInt(4),
                 desviacion |-> One, minimo |-> Nulo, maximo |-> Nulo]
                    : c \in NombresCortos}, 1)]

\* exportarCSV(generarBaseDatos(config)), by a caller that holds no arrays.
LlamarExportarCSV ==
    /\ op = "ninguna"
    /\ Len(valores1) = 0
    /\ Len(valores2) = 0
    /\ \E config \in ConfiguracionesCSV, d \in Desplazamientos :
          /\ argumento' = config @@ [d |-> d]
          /\ resultado' =
                exportarCSV(Arreglo(generarBaseDatos(ConNombresDeTexto(config), d)),
                            ColumnasAsignadas(config))
    /\ op' = "exportarCSV"
    /\ previo' = resultado
    /\ llamadas' = llamadas + 1
    /\ UNCHANGED <<valores1, valores2, entrada1, entrada2>>
    /\ UNCHANGED <<aplicacion, tienda>>

\* The significance levels given to pruebaHipotesisCorrelacion: the default
\* 0.05, and 0.01.
Alfas == {500, 100}

\* pruebaHipotesisCorrelacion(resultado, alpha) on the object
\* calcularCorrelacion has returned.
LlamarPruebaHipotesisCorrelacion ==
    /\ op = "calcularCorrelacion"
    /\ resultado.error = ""
    /\ \E alpha \in Alfas :
          /\ argumento' = [alpha |-> alpha]
          /\ resultado' = pruebaHipotesisCorrelacion(resultado, alpha)
                              @@ [error |-> ""]
    /\ op' = "pruebaHipotesisCorrelacion"
    /\ previo' = resultado
    /\ llamadas' = llamadas + 1
    /\ UNCHANGED <<valores1, valores2, entrada1, entrada2>>
    /\ UNCHANGED <<aplicacion, tienda>>

\* ----------------------------------------------------- the application

\* The toasts of the handlers.
ToastError(mensaje) == [tipo |-> "error", mensaje |-> mensaje]
ToastExito(mensaje) == [tipo |-> "success", mensaje |-> mensaje]
ToastAdvertencia(mensaje) == [tipo |-> "warning", mensaje |-> mensaje]

\* store.setState(cambios): the properties given replace those of the state.
Almacenar(estado, cambios) == cambios @@ estado

\* parseInt of a number: its integer part, as an integer.
parseInt(a) ==
    IF a.e >= 0 THEN a.m * (2 ^ a.e)
    ELSE Sgn(a.m) * (Abs(a.m) \div (2 ^ (-a.e)))

\* valor ? parseFloat(valor) : null, of a number or null: zero is falsy.
NumeroONulo(valor) == IF valor = Nulo \/ valor = Zero THEN Nulo ELSE valor

\* parseInt(s.decimales) || 2
DecimalesODos(valor) ==
    IF valor = Nulo \/ parseInt(valor) = 0 THEN 2 ELSE parseInt(valor)

\* The test of the configuration from a row of the form.
PruebaDeFila(p) ==
    [nombreCorto |-> Texto(generarNombreCortoApp(p.nombre).corto),
     numItems |-> parseInt(p.numItems),
     media |-> p.media,
     desviacion |-> p.desviacion,
     minimo |-> NumeroONulo(p.minimo),
     maximo |-> NumeroONulo(p.maximo)]

\* The sociodemographic variable of the configuration from a row of the form.
SocioDeFila(f) ==
    [categoriaCorta |-> Texto(generarNombreCortoApp(f.categoria).corto),
     promedio |-> f.promedio,
     desviacion |-> f.desviacion,
     minimo |-> NumeroONulo(f.minimo),
     maximo |-> NumeroONulo(f.maximo),
     decimales |-> DecimalesODos(f.decimales)]

\* The configuracion the deferred callback of manejarGenerarBaseDatos builds
\* from what the handler collected.
ConfiguracionDe(t) ==
    [tamanoMuestra |-> parseInt(t.tamanoMuestra),
     pruebas |-> Arreglo([k \in 1..Len(t.pruebas) |-> PruebaDeFila(t.pruebas[k])]),
     sociodemograficos |->
         Arreglo([k \in 1..Len(t.sociodemograficos) |->
                      SocioDeFila(t.sociodemograficos[k])])]

\* The first error of the rows of tests from the k-th on, or the empty
\* sequence: the handler's loop over pruebas.
RECURSIVE PrimerErrorDePruebas(_, _)
PrimerErrorDePruebas(pruebas, k) ==
    IF k > Len(pruebas) THEN <<>>
    ELSE IF ~validarConfiguracionPrueba(pruebas[k]).valido
         THEN <<validarConfiguracionPrueba(pruebas[k]).errores[1]>>
         ELSE PrimerErrorDePruebas(pruebas, k + 1)

\* What manejarGenerarBaseDatos does before its setTimeout: the toast it asks
\* for, and whether it goes on to set the timer.
RevisarFormulario(form) ==
    IF ~validarTamanoMuestral(form.tamanoMuestra).valido
    THEN [toast |-> ToastError(validarTamanoMuestral(form.tamanoMuestra).errores[1]),
          sigue |-> FALSE]
    ELSE IF Len(form.pruebas) = 0
    THEN [toast |-> ToastError("DATOS_REQUERIDOS"), sigue |-> FALSE]
    ELSE IF PrimerErrorDePruebas(form.pruebas, 1) # <<>>
    THEN [toast |-> ToastError(PrimerErrorDePruebas(form.pruebas, 1)[1]),
          sigue |-> FALSE]
    ELSE IF Len(form.sociodemograficos) = 0
    THEN [toast |-> ToastError("Debe agregar al menos una variable sociodemografica"),
          sigue |-> FALSE]
    ELSE [toast |-> ToastExito("Generando base de datos..."), sigue |-> TRUE]

\* The rows of tests of the form: one that is right, one with no limits, and
\* rows with desviacion 0, with numItems 0 and with minimo above maximo.
FilasDePruebas ==
    {[nombre |-> <<"b">>, numItems |-> FromInt(1), media |-> FromInt(4),
      desviacion |-> One, minimo |-> FromInt(1), maximo |-> FromInt(5)],
     [nombre |-> <<"a">>, numItems |-> FromInt(2), media |-> FromInt(4),
      desviacion |-> FromInt(2), minimo |-> Nulo, maximo |-> Nulo],
     [nombre |-> <<"b">>, numItems |-> FromInt(1), media |-> FromInt(4),
      desviacion |-> Zero, minimo |-> FromInt(1), maximo |-> FromInt(5)],
     [nombre |-> <<"b">>, numItems |-> Zero, media |-> FromInt(4),
      desviacion |-> One, minimo |-> FromInt(1), maximo |-> FromInt(5)],
     [nombre |-> <<"b">>, numItems |-> FromInt(1), media |-> FromInt(4),
      desviacion |-> One, minimo |-> FromInt(5), maximo |-> FromInt(1)]}

\* The rows of sociodemographic variables of the form: one that is right, and
\* rows with desviacion 0, with a negative desviacion and with minimo above
\* maximo.
FilasDeSocio ==
    {[categoria |-> <<"Z">>, promedio |-> FromInt(4), desviacion |-> One,
      minimo |-> FromInt(3), maximo |-> FromInt(5), decimales |-> One],
     [categoria |-> <<"Z">>, promedio |-> FromInt(4), desviacion |-> Zero,
      minimo |-> FromInt(3), maximo |-> FromInt(5), decimales |-> One],
     [categoria |-> <<"Z">>, promedio |-> FromInt(4), desviacion |-> FNeg(One),
      minimo |-> Nulo, maximo |-> Nulo, decimales |-> One],
     [categoria |-> <<"Z">>, promedio |-> FromInt(4), desviacion |-> One,
      minimo |-> FromInt(5), maximo |-> FromInt(3), decimales |-> One]}

\* The forms of the generator: a size that is missing, too small or right, and
\* at most MaxFilasFormulario rows in each table.
Formularios ==
    [tamanoMuestra : {Nulo, FromInt(1), FromInt(2)},
     pruebas : Hasta(FilasDePruebas, MaxFilasFormulario),
     sociodemograficos : Hasta(FilasDeSocio, MaxFilasFormulario)]

\* A click on the button that generates: manejarGenerarBaseDatos up to its
\* setTimeout.
ClicGenerarBaseDatos ==
    /\ Len(toasts) < MaxToasts
    /\ Len(temporizadores) < MaxTemporizadores
    /\ \E form \in Formularios :
          /\ toasts' = Append(toasts, RevisarFormulario(form).toast)
          /\ temporizadores' =
                IF RevisarFormulario(form).sigue
                THEN Append(temporizadores, [tipo |-> "generar"] @@ form)
                ELSE temporizadores
    /\ UNCHANGED <<almacen, excepciones, funciones, tienda>>

\* The callback manejarGenerarBaseDatos gave to setTimeout.
TemporizadorGenerarBaseDatos ==
    /\ Len(temporizadores) > 0
    /\ Head(temporizadores).tipo = "generar"
    /\ \E d \in Desplazamientos :
          almacen' = Almacenar(almacen,
              [datosGenerados |->
                   Arreglo(generarBaseDatos(ConfiguracionDe(Head(temporizadores)), d)),
               configuracionGenerador |-> ConfiguracionDe(Head(temporizadores))])
    /\ toasts' = Append(toasts, ToastExito("Base de datos generada exitosamente"))
    /\ temporizadores' = Tail(temporizadores)
    /\ UNCHANGED <<excepciones, funciones, tienda>>

\* A click on the button that uses the generated data: manejarUsarDatosGenerados.
ClicUsarDatosGenerados ==
    /\ Len(toasts) < MaxToasts
    /\ Len(temporizadores) < MaxTemporizadores
    /\ almacen' =
          IF Len(almacen.datosGenerados) = 0 THEN almacen
          ELSE Almacenar(almacen, [datosCargados |-> almacen.datosGenerados])
    /\ toasts' =
          IF Len(almacen.datosGenerados) = 0
          THEN Append(toasts, ToastAdvertencia(
                   "No hay datos generados. Genera una base de datos primero."))
          ELSE Append(toasts, ToastExito("Datos cargados exitosamente"))
    /\ UNCHANGED <<temporizadores, excepciones, funciones, tienda>>

\* What manejarEjecutarAnalisis does before its setTimeout: the toast it asks
\* for, and whether it goes on to set the timer.  The call it makes is
\* validarSeleccionVariables(var1, var2); what that throws is caught by the
\* handler's catch, which shows error.message.
RevisarAnalisis(datos, var1, var2) ==
    IF Len(datos) = 0
    THEN [toast |-> ToastAdvertencia("Primero debes cargar datos"), sigue |-> FALSE]
    ELSE IF validarSeleccionVariables(var1, var2, SinArgumento).excepcion # ""
    THEN [toast |-> ToastError(
                        validarSeleccionVariables(var1, var2, SinArgumento).excepcion),
          sigue |-> FALSE]
    ELSE IF ~validarSeleccionVariables(var1, var2, SinArgumento).valido
    THEN [toast |-> ToastAdvertencia(
                        validarSeleccionVariables(var1, var2, SinArgumento).errores[1]),
          sigue |-> FALSE]
    ELSE [toast |-> ToastExito("Ejecutando analisis..."), sigue |-> TRUE]

\* The values of the two selects: none, or a column of the data.
Seleccionables == {"", "ID", "Z"}

\* A click on the button that analyzes: manejarEjecutarAnalisis up to its
\* setTimeout.
ClicAnalizar ==
    /\ Len(toasts) < MaxToasts
    /\ Len(temporizadores) < MaxTemporizadores
    /\ \E var1 \in Seleccionables, var2 \in Seleccionables, tipoPrueba \in TIPOS_PRUEBA :
          /\ toasts' = Append(toasts,
                            RevisarAnalisis(almacen.datosCargados, var1, var2).toast)
          /\ temporizadores' =
                IF RevisarAnalisis(almacen.datosCargados, var1, var2).sigue
                THEN Append(temporizadores,
                            [tipo |-> "analizar", datos |-> almacen.datosCargados,
                             var1 |-> var1, var2 |-> var2, tipoPrueba |-> tipoPrueba])
                ELSE temporizadores
    /\ UNCHANGED <<almacen, excepciones, funciones, tienda>>

\* The timeout of the toast shown: it is hidden and the next of the queue is
\* shown.
OcultarToast ==
    /\ Len(toasts) > 0
    /\ toasts' = Tail(toasts)
    /\ UNCHANGED <<almacen, temporizadores, excepciones, funciones, tienda>>

\* Before any event of the application.
InitApp ==
    /\ valores1 = <<>>
    /\ valores2 = <<>>
    /\ entrada1 = <<>>
    /\ entrada2 = <<>>
    /\ op = "ninguna"
    /\ argumento = "array"
    /\ resultado = SinResultado
    /\ previo = SinResultado
    /\ llamadas = 0
    /\ AplicacionInicial
    /\ TiendaInicial

NextApp ==
    \/ ClicGenerarBaseDatos
    \/ TemporizadorGenerarBaseDatos
    \/ ClicUsarDatosGenerados
    \/ ClicAnalizar
    \/ OcultarToast

SpecApp == InitApp /\ [][NextApp]_vars

\* ------------------------------------------------------ the store's callers

\* The paths written, as the sequences of their names.
Paths == {<<"generador", "tamanoMuestra">>, <<"ui", "cargando">>}

\* The values written to a path.
ValoresDe(path) ==
    IF path = <<"generador", "tamanoMuestra">> THEN {Numero(100), Numero(5)}
    ELSE {Booleano(FALSE), Booleano(TRUE)}

\* The entries [path, value] a caller can write.
Entradas == UNION {{[path |-> p, value |-> v] : v \in ValoresDe(p)} : p \in Paths}

\* The objects given to actualizarEstado, as the sequences of their entries:
\* from one to MaxCambios entries of different paths.
Lotes ==
    {c \in UNION {[1..k -> Entradas] : k \in 1..MaxCambios} :
        \A i, j \in 1..Len(c) : c[i].path = c[j].path => i = j}

\* The keys subscribed to.
Claves == {<<"generador", "tamanoMuestra">>, <<"generador">>, <<"*">>}

\* The arguments of reiniciarEstado: two sections, a name that is not a
\* section, and none.
Secciones == {"generador", "ui", "extra", ""}

\* estado.<section>.<property> = value, on the exported proxy.
EscribirPorProxy ==
    \E e \in Entradas :
        /\ e.path[1] \in DOMAIN ESTADO_INICIAL
        /\ destinoProxy' =
               IF CambiaValor(Leer(destinoProxy, e.path), e.value)
               THEN Escribir(destinoProxy, e.path, e.value)
               ELSE destinoProxy
        /\ estadoInterno' = IF mismoObjeto THEN destinoProxy' ELSE estadoInterno
        /\ avisos' =
               IF CambiaValor(Leer(destinoProxy, e.path), e.value)
               THEN notificarCambio(listeners, e.path, e.value,
                                    Leer(destinoProxy, e.path), estadoInterno')
               ELSE <<>>
        /\ operacion' = [nombre |-> "estado", cambios |-> <<e>>]
        /\ UNCHANGED <<mismoObjeto, listeners, listenerIdCounter>>
        /\ UNCHANGED <<funciones, aplicacion>>

\* actualizarEstado(cambios)
LlamarActualizarEstado ==
    \E cambios \in Lotes :
        /\ estadoInterno' = AplicarCambios(cambios, 1, estadoInterno, <<>>).interno
        /\ destinoProxy' = IF mismoObjeto THEN estadoInterno' ELSE destinoProxy
        /\ avisos' = NotificarPendientes(listeners,
                          AplicarCambios(cambios, 1, estadoInterno, <<>>).pendientes,
                          1, estadoInterno')
        /\ operacion' = [nombre |-> "actualizarEstado", cambios |-> cambios]
        /\ UNCHANGED <<mismoObjeto, listeners, listenerIdCounter>>
        /\ UNCHANGED <<funciones, aplicacion>>

\* reiniciarEstado(seccion)
LlamarReiniciarEstado ==
    \E seccion \in Secciones :
        /\ estadoInterno' =
               IF EsSeccion(seccion)
               THEN (seccion :> ESTADO_INICIAL[seccion]) @@ estadoInterno
               ELSE ESTADO_INICIAL
        /\ mismoObjeto' = (mismoObjeto /\ EsSeccion(seccion))
        /\ destinoProxy' = IF mismoObjeto' THEN estadoInterno' ELSE destinoProxy
        /\ avisos' =
               IF EsSeccion(seccion)
               THEN notificarCambio(listeners, <<seccion>>, estadoInterno'[seccion],
                                    estadoInterno[seccion], estadoInterno')
               ELSE notificarCambio(listeners, <<"*">>, estadoInterno',
                                    estadoInterno, estadoInterno')
        /\ operacion' = [nombre |-> "reiniciarEstado", cambios |-> <<>>]
        /\ UNCHANGED <<listeners, listenerIdCounter>>
        /\ UNCHANGED <<funciones, aplicacion>>

\* suscribir(key, callback)
LlamarSuscribir ==
    /\ listenerIdCounter < MaxListeners
    /\ \E key \in Claves :
          listeners' = Append(listeners, [id |-> listenerIdCounter + 1, key |-> key])
    /\ listenerIdCounter' = listenerIdCounter + 1
    /\ avisos' = <<>>
    /\ operacion' = [nombre |-> "suscribir", cambios |-> <<>>]
    /\ UNCHANGED <<estadoInterno, destinoProxy, mismoObjeto>>
    /\ UNCHANGED <<funciones, aplicacion>>

\* Before any call of the store.
InitStore == InitApp

NextStore ==
    \/ EscribirPorProxy
    \/ LlamarActualizarEstado
    \/ LlamarReiniciarEstado
    \/ LlamarSuscribir

SpecStore == InitStore /\ [][NextStore]_vars

Next ==
    \/ LlamarCalcularDescriptivas
    \/ LlamarPruebaDeNormalidad
    \/ LlamarConvertirARangos
    \/ LlamarCalcularCorrelacion
    \/ LlamarInterpretarCorrelacion
    \/ LlamarPruebaHipotesisCorrelacion
    \/ LlamarGenerarPuntajesPrueba
    \/ LlamarGenerarBaseDatos
    \/ LlamarGenerarNombreCorto
    \/ LlamarGenerarNombreCortoApp
    \/ LlamarValidarTamanoMuestral
    \/ LlamarExportarCSV

Spec == Init /\ [][Next]_vars

----------------------------------------------------------------------------
\* Properties of the calls.

\* calcularCorrelacion returned an object.
CorrelacionDevuelta == op = "calcularCorrelacion" /\ resultado.error = ""

\* pruebaDeNormalidad returned an object.
NormalidadDevuelta == op = "pruebaDeNormalidad" /\ resultado.error = ""

\* calcularDescriptivas returned an object.
DescriptivasDevueltas == op = "calcularDescriptivas" /\ resultado.error = ""

\* C1: for two arrays of the same length n >= 3, calcularCorrelacion returns
\* an object whose tipoCorrelacion is "Pearson" exactly when normalidad1.normal
\* and normalidad2.normal are both true and "Spearman (Rho)" otherwise, by the
\* method of that name, and normalidad1 and normalidad2 are results of
\* pruebaDeNormalidad on the two arrays.
C1_TipoSegunNormalidad ==
    /\ (/\ op = "calcularCorrelacion"
        /\ Len(entrada1) = Len(entrada2)
        /\ Len(entrada1) >= 3) => resultado.error = ""
    /\ CorrelacionDevuelta =>
          /\ resultado.tipoCorrelacion \in {"Pearson", "Spearman (Rho)"}
          /\ resultado.tipoCorrelacion = "Pearson" <=>
                (resultado.normalidad1.normal /\ resultado.normalidad2.normal)
          /\ resultado.traza[3] = (IF resultado.tipoCorrelacion = "Pearson"
                                   THEN "correlacionPearson"
                                   ELSE "correlacionSpearman")
          /\ resultado.normalidad1 \in pruebaDeNormalidad(entrada1)
          /\ resultado.normalidad2 \in pruebaDeNormalidad(entrada2)

\* A Pearson result: both variables were found normal.
C1_Witness ==
    /\ CorrelacionDevuelta
    /\ resultado.tipoCorrelacion = "Pearson"
    /\ resultado.normalidad1.normal
    /\ resultado.normalidad2.normal

\* C2: pruebaDeNormalidad takes its branch from n alone: n < 3 throws and
\* returns nothing, 3 <= n < 50 is Shapiro-Wilk with razon "n < 50", n >= 50
\* is Kolmogorov-Smirnov with razon "n >= 50" (the source writes the relation
\* with the sign U+2265).
C2_RamaSegunTamano ==
    op = "pruebaDeNormalidad" =>
        /\ Len(entrada1) < 3 => resultado = [error |-> MsgObservaciones]
        /\ (3 <= Len(entrada1) /\ Len(entrada1) < 50) =>
              /\ resultado.error = ""
              /\ resultado.prueba = "Shapiro-Wilk"
              /\ resultado.razon = "n < 50"
              /\ resultado.n = Len(entrada1)
        /\ Len(entrada1) >= 50 =>
              /\ resultado.error = ""
              /\ resultado.prueba = "Kolmogorov-Smirnov"
              /\ resultado.razon = "n >= 50"
              /\ resultado.n = Len(entrada1)

\* The boundary: 50 observations went to Kolmogorov-Smirnov.
C2_Witness ==
    /\ NormalidadDevuelta
    /\ Len(entrada1) = 50
    /\ resultado.prueba = "Kolmogorov-Smirnov"

\* normal is pValor > 0.05 and the decision text is the one of that outcome.
NormalidadCoherente(r) ==
    /\ r.normal <=> (r.pValor # NaN /\ r.pValor > 500)
    /\ r.decision \in {DecisionNormal, DecisionNoNormal}
    /\ r.decision = DecisionNormal <=> r.normal

\* C3: every result of pruebaDeNormalidad, returned to the caller or stored in
\* a correlation result, has normal true exactly when pValor > 0.05 (0.05
\* itself is not normal), and its decision is the "normal" text exactly when
\* normal is true.
C3_NormalSegunPValor ==
    /\ NormalidadDevuelta => NormalidadCoherente(resultado)
    /\ CorrelacionDevuelta =>
          /\ NormalidadCoherente(resultado.normalidad1)
          /\ NormalidadCoherente(resultado.normalidad2)

\* A p-value of exactly 0.05, found not normal.
C3_Witness ==
    /\ NormalidadDevuelta
    /\ resultado.pValor = 500
    /\ ~resultado.normal
    /\ resultado.decision = DecisionNoNormal

\* C4: calcularCorrelacion throws the length error whenever the lengths
\* differ, and the too-few-pairs error whenever they are equal and below 3;
\* in both cases nothing was called before the throw and nothing is returned.
C4_ValidacionesPrimero ==
    op = "calcularCorrelacion" =>
        /\ Len(entrada1) # Len(entrada2) =>
              resultado = [error |-> MsgLongitud, traza |-> <<>>]
        /\ (Len(entrada1) = Len(entrada2) /\ Len(entrada1) < 3) =>
              resultado = [error |-> MsgPares, traza |-> <<>>]

\* Lengths 1 and 2: the length error, not the too-few-pairs error.
C4_Witness ==
    /\ op = "calcularCorrelacion"
    /\ Len(entrada1) = 1
    /\ Len(entrada2) = 2
    /\ resultado.error = MsgLongitud

\* The number of elements of the array below its k-th element.
Menores(s, k) == Cardinality({i \in 1..Len(s) : FLt(s[i], s[k])})

\* The number of elements of the array equal to its k-th element.
Iguales(s, k) == Cardinality({i \in 1..Len(s) : s[i] = s[k]})

\* The average of the sorted positions Menores + 1 .. Menores + Iguales.
PosicionMedia(s, k) == Canon(2 * Menores(s, k) + Iguales(s, k) + 1, -1)

\* C5: convertirARangos returns an array of the length of its input whose
\* k-th element is the average of the 1-based sorted positions of the elements
\* equal to the k-th input element; [10, 20, 20, 30] gives [1, 2.5, 2.5, 4].
C5_RangosPromediados ==
    op = "convertirARangos" =>
        /\ resultado.error = ""
        /\ Len(resultado.rangos) = Len(entrada1)
        /\ \A k \in 1..Len(entrada1) :
              resultado.rangos[k] = PosicionMedia(entrada1, k)
        /\ entrada1 = Ejemplo =>
              resultado.rangos =
                  <<FromInt(1), Canon(5, -1), Canon(5, -1), FromInt(4)>>

\* The ranks of [10, 20, 20, 30].
C5_Witness ==
    /\ op = "convertirARangos"
    /\ entrada1 = Ejemplo
    /\ resultado.rangos = <<FromInt(1), Canon(5, -1), Canon(5, -1), FromInt(4)>>

\* C6: calcularDescriptivas throws when its argument is not an array or is an
\* array of no elements, and returns the statistics of every array of one
\* element or more.
C6_SoloVacioFalla ==
    op = "calcularDescriptivas" =>
        IF argumento # "array" \/ Len(entrada1) = 0
        THEN resultado = [error |-> MsgVacio]
        ELSE resultado.error = "" /\ resultado.n = Len(entrada1)

\* An array of no elements was rejected.
C6_Witness ==
    /\ op = "calcularDescriptivas"
    /\ argumento = "array"
    /\ Len(entrada1) = 0
    /\ resultado = [error |-> MsgVacio]

\* C7: after calcularDescriptivas, pruebaDeNormalidad (both branches),
\* convertirARangos or calcularCorrelacion, each array holds the elements the
\* caller put in it, in the same order, and a second calcularDescriptivas on
\* the same array returns what the first one returned.
C7_EntradaIntacta ==
    /\ valores1 = entrada1
    /\ valores2 = entrada2
    /\ (op = "calcularDescriptivas" /\ llamadas = 2) => resultado = previo

\* Two calls on an array that is not sorted.
C7_Witness ==
    /\ DescriptivasDevueltas
    /\ llamadas = 2
    /\ entrada1 # Ordenar(entrada1)
    /\ resultado = previo

\* C8: the statistics of every non-empty array satisfy
\* min <= q1 <= mediana <= q3 <= max.
C8_CuartilesEnOrden ==
    DescriptivasDevueltas =>
        /\ FLe(resultado.min, resultado.q1)
        /\ FLe(resultado.q1, resultado.mediana)
        /\ FLe(resultado.mediana, resultado.q3)
        /\ FLe(resultado.q3, resultado.max)

\* All the elements of the array are equal.
Constante(s) == \A i \in 1..Len(s) : s[i] = s[1]

\* C9: the statistics of every non-empty array of equal elements have
\* desviacion, varianza, asimetria and curtosis 0.
C9_ConstanteSinDispersion ==
    (DescriptivasDevueltas /\ Constante(entrada1)) =>
        /\ resultado.desviacion = Zero
        /\ resultado.varianza = Zero
        /\ resultado.asimetria = Zero
        /\ resultado.curtosis = Zero

\* C10: calcularDescriptivas does not throw on an array of 1, 2 or 3
\* elements: with n = 1 varianza and desviacion are 0, with n < 3 asimetria
\* is 0, and with n < 4 curtosis is 0.
C10_MuestrasPequenas ==
    (op = "calcularDescriptivas" /\ argumento = "array" /\ Len(entrada1) >= 1) =>
        /\ resultado.error = ""
        /\ Len(entrada1) = 1 =>
              resultado.varianza = Zero /\ resultado.desviacion = Zero
        /\ Len(entrada1) < 3 => resultado.asimetria = Zero
        /\ Len(entrada1) < 4 => resultado.curtosis = Zero

\* The statistics of an array of one element.
C10_Witness ==
    /\ DescriptivasDevueltas
    /\ Len(entrada1) = 1
    /\ resultado.varianza = Zero
    /\ resultado.curtosis = Zero

\* calcularCorrelacion returned the object of correlacionPearson.
PearsonDevuelta == CorrelacionDevuelta /\ resultado.tipoCorrelacion = "Pearson"

\* The two arrays are the same array 1, 2, 3, 4, 5.
MuestrasPerfectas == entrada1 = Escalera(5) /\ entrada2 = Escalera(5)

\* C11: on the Pearson path a coefficient with |r| >= 1 has p-value 0 (1 if
\* r = 0), and perfectly correlated arrays such as [1, 2, 3, 4, 5] with
\* itself have p-value 0.
C11_PerfectaDaCero ==
    PearsonDevuelta =>
        /\ AbsAlMenosUno(resultado.coeficiente) =>
              resultado.pValor = (IF resultado.coeficiente = Zero THEN 10000 ELSE 0)
        /\ MuestrasPerfectas => resultado.pValor = 0

\* C12: every object calcularCorrelacion returns, by either method and for
\* either tipoPrueba, has its coeficiente in [-1, 1] and its pValor in [0, 1].
C12_CoeficienteYPValorEnRango ==
    CorrelacionDevuelta =>
        /\ FLe(FNeg(One), resultado.coeficiente)
        /\ FLe(resultado.coeficiente, One)
        /\ resultado.pValor \in 0..10000

\* calcularCorrelacion returned the object of correlacionSpearman.
SpearmanDevuelta ==
    CorrelacionDevuelta /\ resultado.tipoCorrelacion = "Spearman (Rho)"

\* The one-tailed values: those of the series, and 1 for a zero statistic.
UnaCola == PColas \cup {10000}

\* C13: on the Spearman path the p-value comes from the normal approximation
\* when n > 10 and from the Pearson formula applied to rho when n <= 10, with
\* that formula's |rho| >= 1 policy; in both the one-tailed value is doubled
\* for a bilateral test only, and capped at 1.
C13_PValorSpearmanSegunN ==
    SpearmanDevuelta =>
        /\ resultado.n = Len(entrada1)
        /\ Len(entrada1) > 10 =>
              resultado.traza[4] = "distribucionNormalAcumulada"
        /\ Len(entrada1) <= 10 =>
              /\ resultado.traza[4] =
                    (IF AbsAlMenosUno(resultado.coeficiente)
                     THEN "ninguna" ELSE "calcularPValorT")
              /\ AbsAlMenosUno(resultado.coeficiente) =>
                    resultado.pValor =
                        (IF resultado.coeficiente = Zero THEN 10000 ELSE 0)
        /\ resultado.traza[4] # "ninguna" =>
              /\ resultado.pValor <= 10000
              /\ resultado.tipoPrueba = "unilateral" =>
                    resultado.pValor \in UnaCola
              /\ resultado.tipoPrueba = "bilateral" =>
                    \E p \in UnaCola :
                        resultado.pValor = (IF 2 * p < 10000 THEN 2 * p ELSE 10000)

\* Ten pairs of equal ranks: the Pearson formula's policy gave 0.
C13_Witness ==
    /\ SpearmanDevuelta
    /\ Len(entrada1) = 10
    /\ AbsAlMenosUno(resultado.coeficiente)
    /\ resultado.traza[4] = "ninguna"
    /\ resultado.pValor = 0

\* The strength of an interpretation is the class of |r| between consecutive
\* thresholds, each threshold in the class above it, and its direction is
\* positive exactly when r >= 0.
ClaseSegunUmbrales(r, interpretacion) ==
    /\ interpretacion.fuerza = "nula o muy debil" <=>
          FLt(FAbs(r), UMBRALES_CORRELACION.NULA)
    /\ interpretacion.fuerza = "debil" <=>
          (FLe(UMBRALES_CORRELACION.NULA, FAbs(r))
              /\ FLt(FAbs(r), UMBRALES_CORRELACION.DEBIL))
    /\ interpretacion.fuerza = "moderada" <=>
          (FLe(UMBRALES_CORRELACION.DEBIL, FAbs(r))
              /\ FLt(FAbs(r), UMBRALES_CORRELACION.MODERADA))
    /\ interpretacion.fuerza = "moderada-fuerte" <=>
          (FLe(UMBRALES_CORRELACION.MODERADA, FAbs(r))
              /\ FLt(FAbs(r), UMBRALES_CORRELACION.FUERTE))
    /\ interpretacion.fuerza = "fuerte" <=>
          (FLe(UMBRALES_CORRELACION.FUERTE, FAbs(r))
              /\ FLt(FAbs(r), UMBRALES_CORRELACION.MUY_FUERTE))
    /\ interpretacion.fuerza = "muy fuerte" <=>
          FLe(UMBRALES_CORRELACION.MUY_FUERTE, FAbs(r))
    /\ interpretacion.direccion = "positiva" <=> r.m >= 0
    /\ interpretacion.direccion = "negativa" <=> r.m < 0

NivelSegunP(p, interpretacion) ==
    /\ interpretacion.significancia = "altamente significativa (p < .001)" <=>
          p < 10
    /\ interpretacion.significancia = "muy significativa (p < .01)" <=>
          (10 <= p /\ p < 100)
    /\ interpretacion.significancia = "significativa (p < .05)" <=>
          (100 <= p /\ p < 500)
    /\ interpretacion.significancia = "no significativa (p >= .05)" <=>
          500 <= p

\* C15: interpretarCorrelacion takes the significance label from p alone, by
\* the tiers p < 0.001, p < 0.01, p < 0.05 and p >= 0.05, so a correlation
\* result is labelled "no significativa" exactly when
\* pruebaHipotesisCorrelacion at alpha = 0.05 does not reject H0.
C15_SignificanciaSegunP ==
    /\ op = "interpretarCorrelacion" => NivelSegunP(argumento.p, resultado)
    /\ CorrelacionDevuelta =>
          NivelSegunP(resultado.pValor, resultado.interpretacion)
    /\ (op = "pruebaHipotesisCorrelacion" /\ argumento.alpha = 500) =>
          (previo.interpretacion.significancia = "no significativa (p >= .05)"
              <=> resultado.decision = "no_rechazar")

\* A p-value of exactly 0.05: not significant, and H0 is not rejected.
C15_Witness ==
    /\ op = "pruebaHipotesisCorrelacion"
    /\ argumento.alpha = 500
    /\ previo.pValor = 500
    /\ previo.interpretacion.significancia = "no significativa (p >= .05)"
    /\ resultado.decision = "no_rechazar"

\* The integer k is x rounded to the nearest integer, a half going up:
\* k - 1/2 <= x < k + 1/2.
RedondeaA(x, k) ==
    /\ FLe(FromInt(2 * k - 1), Canon(2 * x.m, x.e))
    /\ FLt(Canon(2 * x.m, x.e), FromInt(2 * k + 1))

\* x brought into [lo, hi].
Acotado(x, lo, hi) == IF FLt(x, lo) THEN lo ELSE IF FLt(hi, x) THEN hi ELSE x

\* The number is an integer.
EsEntero(a) == a.e >= 0

\* The integer a number is.
Entero(a) == a.m * (2 ^ a.e)

\* The sum of the elements of a sequence of integers, from the first one on.
RECURSIVE SumaDesde(_, _)
SumaDesde(items, i) ==
    IF i > Len(items) THEN 0 ELSE items[i] + SumaDesde(items, i + 1)

\* The lower limit of a call of generarPuntajesPrueba: 1 when not given.
LimiteInferior(a) == IF a.minItem = Nulo THEN FromInt(1) ELSE a.minItem

\* The upper limit of a call of generarPuntajesPrueba: 7 when not given.
LimiteSuperior(a) == IF a.maxItem = Nulo THEN FromInt(7) ELSE a.maxItem

\* generarPuntajesPrueba returned an object.
PuntajesDevueltos == op = "generarPuntajesPrueba" /\ resultado.error = ""

\* C16: generarPuntajesPrueba returns numItems items, the i-th one the i-th
\* normal draw brought into [minItem, maxItem] (1 and 7 when not given) and
\* rounded to the nearest integer, and total is their sum; with integer limits
\* every item is an integer from minItem to maxItem and total lies from
\* numItems * minItem to numItems * maxItem.
C16_ItemsLimitadosYRedondeados ==
    op = "generarPuntajesPrueba" =>
        /\ resultado.error = ""
        /\ Len(resultado.items) = argumento.numItems
        /\ \A i \in 1..argumento.numItems :
              RedondeaA(Acotado(generarValorNormal(argumento.mediaPorItem,
                                                   argumento.desviacionPorItem,
                                                   argumento.z[i]),
                                LimiteInferior(argumento), LimiteSuperior(argumento)),
                        resultado.items[i])
        /\ resultado.total = SumaDesde(resultado.items, 1)
        /\ (EsEntero(LimiteInferior(argumento)) /\ EsEntero(LimiteSuperior(argumento))) =>
              /\ \A i \in 1..argumento.numItems :
                    resultado.items[i] \in
                        Entero(LimiteInferior(argumento))..Entero(LimiteSuperior(argumento))
              /\ resultado.total \in
                    (argumento.numItems * Entero(LimiteInferior(argumento)))
                        ..(argumento.numItems * Entero(LimiteSuperior(argumento)))

\* Two items with no limits given: a draw of 10 became 7, a draw of 2 stayed.
C16_Witness ==
    /\ PuntajesDevueltos
    /\ argumento.minItem = Nulo
    /\ argumento.maxItem = Nulo
    /\ argumento.desviacionPorItem = FromInt(2)
    /\ resultado.items = <<7, 2>>
    /\ resultado.total = 9

\* The call generarPuntajesPrueba(20, 50, 0, 1, 100).
LlamadaDeEjemplo ==
    /\ argumento.numItems = 20
    /\ argumento.mediaPorItem = FromInt(50)
    /\ argumento.desviacionPorItem = Zero
    /\ argumento.minItem = FromInt(1)
    /\ argumento.maxItem = FromInt(100)

\* C17: with desviacionPorItem = 0, whatever the draws are, every item of
\* generarPuntajesPrueba is mediaPorItem brought into [minItem, maxItem] and
\* rounded, and total is numItems times that value;
\* generarPuntajesPrueba(20, 50, 0, 1, 100) gives twenty items of 50 and
\* total 1000.
C17_SinDesviacionSinAzar ==
    (op = "generarPuntajesPrueba" /\ argumento.desviacionPorItem = Zero) =>
        /\ resultado.error = ""
        /\ Len(resultado.items) = argumento.numItems
        /\ \A i \in 1..argumento.numItems :
              /\ RedondeaA(Acotado(argumento.mediaPorItem,
                                   LimiteInferior(argumento),
                                   LimiteSuperior(argumento)),
                           resultado.items[i])
              /\ resultado.total = argumento.numItems * resultado.items[i]
        /\ LlamadaDeEjemplo =>
              /\ resultado.items = [i \in 1..20 |-> 50]
              /\ resultado.total = 1000

\* The call of the example, with draws that differ from each other.
C17_Witness ==
    /\ PuntajesDevueltos
    /\ LlamadaDeEjemplo
    /\ argumento.z[1] # argumento.z[2]
    /\ resultado.items[20] = 50
    /\ resultado.total = 1000

\* generarBaseDatos returned.
BaseDatosDevuelta == op = "generarBaseDatos" /\ resultado.error = ""

\* C18: generarBaseDatos returns config.tamanoMuestra rows, and the row of
\* index i (0-based) has ID = i + 1, whatever the variables and the tests of
\* the configuration are.
C18_FilasNumeradas ==
    op = "generarBaseDatos" =>
        /\ resultado.error = ""
        /\ Len(resultado.datos) = argumento.tamanoMuestra
        /\ \A i \in 1..Len(resultado.datos) :
              /\ "ID" \in DOMAIN resultado.datos[i]
              /\ resultado.datos[i]["ID"] = FromInt(i)

\* The names of the columns of a test.
ColumnasDePrueba(prueba) ==
    {prueba.nombreCorto \o ToString(k) : k \in 1..prueba.numItems}
        \cup {"Total_" \o prueba.nombreCorto}

\* No later variable and no test of the configuration writes the column of the
\* j-th sociodemographic variable.
ColumnaPropia(config, j) ==
    /\ \A l \in (j + 1)..Len(config.sociodemograficos) :
          config.sociodemograficos[l].categoriaCorta
              # config.sociodemograficos[j].categoriaCorta
    /\ \A t \in 1..Len(config.pruebas) :
          config.sociodemograficos[j].categoriaCorta
              \notin ColumnasDePrueba(config.pruebas[t])

\* The normal draw of the j-th sociodemographic variable of the i-th row
\* (i is 1-based).
SorteoDeVariable(config, i, j) ==
    generarValorNormal(config.sociodemograficos[j].promedio,
                       config.sociodemograficos[j].desviacion,
                       Sorteo(config.d, (i - 1) * SorteosPorFila(config) + j))

\* v is x rounded to the given number of decimals: v = k / 10^decimales for
\* the integer k that x * 10^decimales rounds to.
RedondeadoADecimales(x, decimales, v) ==
    \E k \in -100..100 :
        /\ RedondeaA(FMul(x, FPow(FromInt(10), decimales)), k)
        /\ v = FDiv(FromInt(k), FPow(FromInt(10), decimales))

\* Both limits of a variable are given.
ConAmbosLimites(socio) == socio.minimo # Nulo /\ socio.maximo # Nulo

\* C19: the value of a sociodemographic variable is its normal draw, brought
\* into [minimo, maximo] if and only if both limits are given, and then
\* rounded to the variable's number of decimals; with both limits given the
\* value lies from minimo to maximo.
C19_VariableLimitadaYRedondeada ==
    op = "generarBaseDatos" =>
        \A i \in 1..Len(resultado.datos) :
            \A j \in 1..Len(argumento.sociodemograficos) :
                ColumnaPropia(argumento, j) =>
                    /\ argumento.sociodemograficos[j].categoriaCorta
                           \in DOMAIN resultado.datos[i]
                    /\ RedondeadoADecimales(
                           IF ConAmbosLimites(argumento.sociodemograficos[j])
                           THEN Acotado(SorteoDeVariable(argumento, i, j),
                                        argumento.sociodemograficos[j].minimo,
                                        argumento.sociodemograficos[j].maximo)
                           ELSE SorteoDeVariable(argumento, i, j),
                           argumento.sociodemograficos[j].decimales,
                           resultado.datos[i][argumento.sociodemograficos[j].categoriaCorta])
                    /\ ConAmbosLimites(argumento.sociodemograficos[j]) =>
                           /\ FLe(argumento.sociodemograficos[j].minimo,
                                  resultado.datos[i][argumento.sociodemograficos[j].categoriaCorta])
                           /\ FLe(resultado.datos[i][argumento.sociodemograficos[j].categoriaCorta],
                                  argumento.sociodemograficos[j].maximo)

\* A row with two variables: the one with limits 3 and 5 drew 7 and has 5, the
\* one with a minimum of 5 only drew 3 and has 3.
C19_Witness ==
    /\ BaseDatosDevuelta
    /\ Len(resultado.datos) >= 1
    /\ Len(argumento.sociodemograficos) = 2
    /\ argumento.sociodemograficos[1].categoriaCorta = "E"
    /\ argumento.sociodemograficos[2].categoriaCorta = "P"
    /\ SorteoDeVariable(argumento, 1, 1) = FromInt(7)
    /\ SorteoDeVariable(argumento, 1, 2) = FromInt(3)
    /\ resultado.datos[1]["E"] = FromInt(5)
    /\ resultado.datos[1]["P"] = FromInt(3)

\* The sum of the columns C1..Ck of a row.
RECURSIVE SumaDeColumnas(_, _, _)
SumaDeColumnas(fila, nombreCorto, k) ==
    IF k = 0 THEN 0
    ELSE Entero(fila[nombreCorto \o ToString(k)])
             + SumaDeColumnas(fila, nombreCorto, k - 1)

\* C20: every row has, for each test of the configuration with k items and
\* short name C, the columns C1..Ck and Total_C, and its Total_C is the sum of
\* its C1..Ck, whatever the number of tests and of variables is.
C20_TotalEsSumaDeItems ==
    op = "generarBaseDatos" =>
        \A i \in 1..Len(resultado.datos) :
            \A t \in 1..Len(argumento.pruebas) :
                /\ ColumnasDePrueba(argumento.pruebas[t])
                       \subseteq DOMAIN resultado.datos[i]
                /\ \A c \in ColumnasDePrueba(argumento.pruebas[t]) :
                       EsEntero(resultado.datos[i][c])
                /\ Entero(resultado.datos[i]["Total_" \o argumento.pruebas[t].nombreCorto])
                       = SumaDeColumnas(resultado.datos[i],
                                        argumento.pruebas[t].nombreCorto,
                                        argumento.pruebas[t].numItems)

\* The i-th character of a name begins a word: it is a letter or a digit, and
\* the nearest letter, digit or white space before it, if any, is white space.
EmpiezaPalabra(nombre, i) ==
    /\ EsAlfanumerico(nombre[i])
    /\ \A j \in 1..(i - 1) :
          (EsAlfanumerico(nombre[j]) \/ EsEspacio(nombre[j])) =>
              \E l \in j..(i - 1) : EsEspacio(nombre[l])

\* The places of a name where a word begins.
Comienzos(nombre) == {i \in 1..Len(nombre) : EmpiezaPalabra(nombre, i)}

\* The k-th of the places where a word begins.
Comienzo(nombre, k) ==
    CHOOSE i \in Comienzos(nombre) :
        Cardinality({j \in Comienzos(nombre) : j <= i}) = k

\* corto is made of the upper-cased first characters of the words of nombre,
\* in order, the first ten at most.
EsCodigoDe(corto, nombre) ==
    /\ Len(corto) = (IF Cardinality(Comienzos(nombre)) < 10
                     THEN Cardinality(Comienzos(nombre)) ELSE 10)
    /\ \A k \in 1..Len(corto) : corto[k] = Mayuscula(nombre[Comienzo(nombre, k)])

\* C21: for every string, generarNombreCorto returns the upper-cased first
\* characters of the words that remain once every character that is not a
\* letter a-z or A-Z, a digit or white space is removed, cut to ten characters,
\* and the copy of the application's entry point returns the same.
C21_CodigoDeIniciales ==
    /\ (op = "generarNombreCorto" /\ argumento.nombre # NoCadena) =>
          /\ resultado.error = ""
          /\ EsCodigoDe(resultado.corto, argumento.nombre)
          /\ generarNombreCortoApp(argumento.nombre) = resultado
    /\ (op = "generarNombreCortoApp" /\ argumento.nombre # NoCadena) =>
          /\ resultado.error = ""
          /\ EsCodigoDe(resultado.corto, argumento.nombre)
          /\ resultado.corto = generarNombreCorto(argumento.nombre, MaxLengthDefault)

\* A name of eleven one-letter words gave a code of ten letters.
C21_Witness ==
    /\ op = "generarNombreCorto"
    /\ argumento.nombre # NoCadena
    /\ Len(argumento.nombre) = 21
    /\ Len(resultado.corto) = 10
    /\ resultado.corto[2] = "B"

\* C24: validarTamanoMuestral accepts a size only if it is an integer from 10
\* to 10000: a size below 10 gives valido = false with an error, and a size
\* above 10000 is not accepted.
C24_TamanoDeDiezADiezMil ==
    op = "validarTamanoMuestral" =>
        /\ resultado.valido =>
              /\ argumento.n # Nulo
              /\ EsNumeroEntero(argumento.n)
              /\ FLe(FromInt(10), argumento.n)
              /\ FLe(argumento.n, FromInt(10000))
        /\ ~resultado.valido => Len(resultado.errores) >= 1

\* A configuracion has a test or a variable with desviacion <= 0, a test with
\* numItems < 1, or a test or a variable with minimo >= maximo.
ConfiguracionInvalida(config) ==
    \/ \E k \in 1..Len(config.pruebas) :
          \/ FLe(config.pruebas[k].desviacion, Zero)
          \/ config.pruebas[k].numItems < 1
          \/ RangoInvertido(config.pruebas[k].minimo, config.pruebas[k].maximo)
    \/ \E k \in 1..Len(config.sociodemograficos) :
          \/ FLe(config.sociodemograficos[k].desviacion, Zero)
          \/ RangoInvertido(config.sociodemograficos[k].minimo,
                            config.sociodemograficos[k].maximo)

\* C22: no dataset is produced from a configuration in which a test or a
\* variable has desviacion <= 0, a test has numItems < 1, or a test or a
\* variable has minimo >= maximo: the dataset the application stores comes
\* from a configuration with none of these.
C22_ConfiguracionInvalidaRechazada ==
    almacen.configuracionGenerador # Nulo =>
        ~ConfiguracionInvalida(almacen.configuracionGenerador)

\* C23: the CSV exportarCSV makes of a generated dataset has ID as its first
\* column and 1, 2, ... as the values of that column in row order, whatever
\* the short names of the tests and variables are.
C23_IDPrimeraColumna ==
    (op = "exportarCSV" /\ argumento.tamanoMuestra >= 1) =>
        /\ resultado.error = ""
        /\ resultado.encabezados[1] = <<"I", "D">>
        /\ Len(resultado.lineas) = argumento.tamanoMuestra
        /\ \A i \in 1..Len(resultado.lineas) : resultado.lineas[i][1] = FromInt(i)

\* The call was given two arrays of one length, three or more, and one of
\* them holds a single value.
UnaMuestraConstante ==
    /\ Len(entrada1) = Len(entrada2)
    /\ Len(entrada1) >= 3
    /\ (Constante(entrada1) \/ Constante(entrada2))

UltimaEscritura == operacion.cambios[1]

\* C28: after any sequence of store operations (writes through the proxy,
\* actualizarEstado, reiniciarEstado with and without a section), a write
\* through the exported estado is reflected in what obtenerEstado and
\* obtenerValor return.
C28_EscrituraReflejada ==
    operacion.nombre = "estado" =>
        /\ obtenerValor(estadoInterno, UltimaEscritura.path) = UltimaEscritura.value
        /\ Leer(obtenerEstado(estadoInterno), UltimaEscritura.path)
               = UltimaEscritura.value

\* The number of calls made to a listener for a path.
VecesAvisado(hechas, id, path) ==
    Cardinality({a \in 1..Len(hechas) :
                    hechas[a].oyente = id /\ hechas[a].key = path})

\* The position of a path in a batch.
PosicionEn(cambios, path) == CHOOSE i \in 1..Len(cambios) : cambios[i].path = path

\* A batch applied to the state antes left the state despues and made the
\* calls hechas: every entry is in despues and in the state every call was
\* given; a listener was called once for each path it listens to whose value
\* differs from the one in antes, and not for any other; the calls follow the
\* order of the batch.
LoteAtomico(antes, despues, cambios, hechas, oyentes) ==
    /\ \A i \in 1..Len(cambios) :
           /\ Leer(despues, cambios[i].path) = cambios[i].value
           /\ \A a \in 1..Len(hechas) :
                  Leer(hechas[a].state, cambios[i].path) = cambios[i].value
    /\ \A i \in 1..Len(cambios), l \in 1..Len(oyentes) :
           VecesAvisado(hechas, oyentes[l].id, cambios[i].path)
               = IF /\ Leer(antes, cambios[i].path) # cambios[i].value
                    /\ Escucha(oyentes[l], cambios[i].path)
                 THEN 1 ELSE 0
    /\ \A a, b \in 1..Len(hechas) :
           a < b => PosicionEn(cambios, hechas[a].key)
                        <= PosicionEn(cambios, hechas[b].key)

\* C29: actualizarEstado applies a batch atomically with respect to the
\* listeners: every change is written before the first listener is called, so
\* the state each call is given holds all of them; each listener is called
\* once for each path whose value changed, in the order of the batch.
C29_LoteAtomico ==
    [][operacion'.nombre = "actualizarEstado" =>
           LoteAtomico(estadoInterno, estadoInterno', operacion'.cambios, avisos',
                       listeners)]_vars

\* A batch of two entries changed both values and a listener was called for
\* each of the two paths.
C29_Witness ==
    /\ operacion.nombre = "actualizarEstado"
    /\ Len(operacion.cambios) = 2
    /\ \E a, b \in 1..Len(avisos) :
           avisos[a].key # avisos[b].key /\ avisos[a].oyente = avisos[b].oyente

\* No click has left the callback of manejarEjecutarAnalisis waiting, and no
\* result of an analysis is stored: with data and two different variables
\* selected, the handler's validation throws before the setTimeout.
AnalisisNuncaProgramado ==
    /\ \A i \in 1..Len(temporizadores) : temporizadores[i].tipo # "analizar"
    /\ almacen.resultadosAnalisis = Nulo

\* With data loaded and two different variables selected, the click on the
\* button that analyzes showed the message of the TypeError.
AnalisisConTypeError ==
    /\ Len(almacen.datosCargados) > 0
    /\ \E i \in 1..Len(toasts) : toasts[i] = ToastError("TypeError")


====
